---- MODULE Spec2Model ----
(***************************************************************************)
(* Model of the asynchronous transfer scheduler CurlMulti                  *)
(* (src/src/core/multi.ts): admission, the setImmediate-driven poll loop,  *)
(* completion matching, cancellation, context faults and close, together   *)
(* with the part of the native multiplexing context (libcurl multi) that   *)
(* the scheduler observes through the FFI of src/src/ffi/libcurl.ts.       *)
(*                                                                         *)
(* JavaScript runs every handler to completion, so each handler is one     *)
(* atomic action.  perform() runs the first poll-loop iteration            *)
(* synchronously (startPolling calls pollLoop), so the Perform action      *)
(* contains that iteration.                                                *)
(***************************************************************************)
EXTENDS Integers, Sequences, FiniteSets, TLC

\* ------------------------------------------------------------------ bounds
NumCurls == 3
MaxResultCode == 1
MaxMultiCode == 1
MaxLists == 2
NumRequests == 2
MaxPayload == 3
NumRecvs == 2
NumCloses == 2
MaxReason == 2
NumMultis == 3
MaxSize == 2
MaxNmemb == 3
MaxValues == 2

\* ------------------------------------------------------- program constants
CURLM_OK == 0
CURLM_CALL_MULTI_PERFORM == -1
CURLMSG_DONE == 1
CURLE_OK == 0
NullHandle == 0
CURLE_AGAIN == 81
CURLWS_TEXT == 1
CURLWS_BINARY == 2
CURLWS_CLOSE == 8
CURLWS_PING == 16
CURLWS_PONG == 64
NormalClosure == 1000
AbnormalClosure == 1006

Curls == 1..NumCurls
\* CURLcode values a transfer can finish with (0 = success).
ResultCodes == 0..MaxResultCode
\* Fatal CURLMcode values (every value other than OK and CALL_MULTI_PERFORM).
FatalMultiCodes == 1..MaxMultiCode
\* The header lists a Curl object can come to own (Curl.setHeaders).
Lists == 1..MaxLists
\* The calls of Session.request, named by their Curl objects in the order of
\* the calls.
Requests == 1..NumRequests

VARIABLES
    closed,            \* CurlMulti.closed
    handle,            \* CurlMulti.handle: "multi" or "null"
    pendingTransfers,  \* Map<string, PendingTransfer>: handle address -> record
    curlToAddr,        \* Map<Curl, string>
    polling,           \* CurlMulti.polling
    pollTimer,         \* CurlMulti.pollTimer: "null", "live" (queued) or "fired"
    immediates,        \* number of pollLoop callbacks queued with setImmediate
    curlHandle,        \* Curl.handle of every Curl object (NullHandle once released)
    registered,        \* native: easy handles added to the multi context
    nativeDone,        \* native: transfers finished on the wire, not yet seen by curl_multi_perform
    msgQueue,          \* native: completion messages waiting for curl_multi_info_read
    cleanupCalls,      \* number of curl_multi_cleanup calls made so far
    futures,           \* per Curl object, the promise of its accepted perform() and
                       \* the number of resolve/reject calls made on it
    lastOp,            \* the handler that ran last, what it returned and what it called
    curlSlists,        \* Curl._slists of every Curl object: the pointers of its SLists
    easyCleanups,      \* native: curl_easy_cleanup calls made for every Curl object
    slistFrees,        \* native: curl_slist_free_all calls made for every header list
    reqState,          \* Session.request per Curl: "new", "awaiting" (at the await of
                       \* multi.perform) or "done" (left through the finally)
    exitPath,          \* the way every request left Session.request
    sessionClosed,     \* Session.closed
    ownMulti,          \* Session.ownMulti
    wsPhase,           \* AsyncWebSocket.connect: "none", "configFailed", "connectFailed"
                       \* or "connected" (the session was returned to the caller)
    wsConnected,       \* AsyncWebSocket._connected
    wsClosed,          \* AsyncWebSocket._closed
    wsCloseEvent,      \* AsyncWebSocket._closeEvent
    wsRecv,            \* per recv() call: "idle", "polling" (no timeout), "pollingTimed"
                       \* (timeout not reached) or "pollingExpired" (timeout reached)
    wsTimers,          \* the recv() calls whose poll is queued with setTimeout
    wsPollTimer,       \* AsyncWebSocket.pollTimer: 0 (null) or the recv() call whose
                       \* timeout it holds
    wsClosing,         \* per close() call, while it is at its await: its arguments
                       \* and whether its sendRaw wrote the close frame
    wsInbox,           \* native: the frame curl_ws_recv returns next (NoFrame: none)
    wsLast,            \* the WebSocket handler that ran last and what it did
    wsMulti,           \* AsyncWebSocket.multi: the instance getSharedMulti() returned (0: none)
    wsIter,            \* the async iterator of the session: where its generator is,
                       \* the recv() call it awaits, what it yielded or threw last
    rtStep,            \* close frame round trip: "idle", "args", "encoded" or "decoded"
    rtArgs,            \* the code and reason one session passes to close()
    rtPayload,         \* the close frame payload close() builds from rtArgs
    rtEvent,           \* the Close Event another session decodes from rtPayload
    sharedMulti,       \* multi.ts: let sharedMulti (0: null, else a CurlMulti instance)
    multis,            \* every CurlMulti instance: whether it exists, and its state
    sharedClosing,     \* closeSharedMulti() calls at their await
    sess,              \* every Session: "none", "open" or "closed", its multi, ownMulti
    sharedLast,        \* the last operation on an instance or a Session and its result
    cbArgs,            \* callback bridge: the native invocation and what fn returns
    cbOut,             \* callback bridge: the calls made to fn and the count returned
    hdrData,           \* Headers.data: lowercase key -> list of [name, value]
    hdrLast            \* the last Headers operation and its result

wsVars == <<wsPhase, wsConnected, wsClosed, wsCloseEvent, wsRecv, wsTimers, wsPollTimer,
            wsClosing, wsInbox, wsLast, wsMulti, wsIter>>

roundTripVars == <<rtStep, rtArgs, rtPayload, rtEvent>>

sharedVars == <<sharedMulti, multis, sharedClosing, sess, sharedLast>>

bridgeVars == <<cbArgs, cbOut>>

headersVars == <<hdrData, hdrLast>>

pureVars == <<bridgeVars, headersVars>>

libVars == <<sharedVars, pureVars>>

curlVars == <<curlSlists, easyCleanups, slistFrees>>

sessionVars == <<reqState, exitPath, sessionClosed, ownMulti>>

vars == <<closed, handle, pendingTransfers, curlToAddr, polling, pollTimer, immediates,
          curlHandle, registered, nativeDone, msgQueue, cleanupCalls, futures,
          lastOp, curlVars, sessionVars, wsVars, roundTripVars, libVars>>

\* ------------------------------------------------------------ value shapes
EmptyMap == [x \in {} |-> 0]

NoTransfer == [curl |-> 0, handle |-> 0, handleAddr |-> 0, fut |-> 0]

NoFuture == [kind |-> "none", code |-> 0]

Pending == [kind |-> "pending", code |-> 0]

TransferResult(code) == [kind |-> "resolved", code |-> code]

TransferFailed(code) == [kind |-> "TransferFailed", code |-> code]

Cancelled == [kind |-> "Cancelled", code |-> 0]

SchedulerClosed == [kind |-> "Closed", code |-> 0]

PerformFailed(code) == [kind |-> "PerformFailed", code |-> code]

PollFailed(code) == [kind |-> "PollFailed", code |-> code]

NoOp == [op |-> "init", curl |-> 0, ret |-> "none", calls |-> {}, loop |-> "none",
         running |-> -1, fault |-> 0, settled |-> <<>>]

\* The scheduler and native state as one value, threaded through the handlers.
Cur ==
    [closed |-> closed, handle |-> handle, pendingTransfers |-> pendingTransfers,
     curlToAddr |-> curlToAddr, polling |-> polling, pollTimer |-> pollTimer,
     immediates |-> immediates, registered |-> registered, nativeDone |-> nativeDone,
     msgQueue |-> msgQueue, cleanupCalls |-> cleanupCalls, futures |-> futures,
     curlHandle |-> curlHandle,
     ret |-> "none", calls |-> {}, loop |-> "none", running |-> -1, fault |-> 0,
     settled |-> <<>>]

\* ------------------------------------------------------ WebSocket value shapes
RecvIds == 1..NumRecvs

CloseIds == 1..NumCloses

\* Byte strings the peer sends: code 1000 (3 * 256 + 232) with the reason "by",
\* code 1000 with a byte that is not UTF-8, and code 0.
PayloadSamples == {<<3, 232, 98, 121>>, <<3, 232, 232>>, <<0, 0>>}

Min(a, b) == IF a < b THEN a ELSE b

\* The payloads of the frames the peer sends: the samples cut at every length
\* up to MaxPayload.
Payloads ==
    UNION {{SubSeq(p, 1, n) : n \in 0..Min(Len(p), MaxPayload)} : p \in PayloadSamples}

\* "Connection closed", the reason recv() reports when there is no Close Event.
ConnectionClosedText ==
    <<67, 111, 110, 110, 101, 99, 116, 105, 111, 110, 32, 99, 108, 111, 115, 101, 100>>

NoCloseEvent == [set |-> FALSE, code |-> 0, reason |-> <<>>, wasClean |-> FALSE]

CloseEvent(code, reason) == [set |-> TRUE, code |-> code, reason |-> reason, wasClean |-> TRUE]

NotClosing == [active |-> FALSE, code |-> 0, reason |-> <<>>, sent |-> FALSE]

NoMessage == [type |-> "none", data |-> <<>>]

NoFrame == [code |-> -1, received |-> 0, flags |-> 0, data |-> <<>>]

NoError == [kind |-> "none", code |-> 0, reason |-> <<>>, text |-> ""]

WebSocketClosed(code, reason) ==
    [kind |-> "WebSocketClosed", code |-> code, reason |-> reason, text |-> "WebSocket closed"]

WebSocketError(text, code) ==
    [kind |-> "WebSocketError", code |-> code, reason |-> <<>>, text |-> text]

\* No close frame round trip is under way.
RoundTripIdle ==
    /\ rtStep = "idle"
    /\ rtArgs = [code |-> 0, reason |-> <<>>]
    /\ rtPayload = <<>>
    /\ rtEvent = NoCloseEvent

\* The generator of the async iterator has not run, or is suspended at its yield.
NoIteration == [state |-> "idle", call |-> 0, out |-> NoMessage, err |-> NoError]

\* ------------------------------------------------------ instances and library
MultiIds == 1..NumMultis

\* A CurlMulti as its constructor leaves it; every Curl object it may be
\* given has a live handle.
NewMulti ==
    [created |-> TRUE, closed |-> FALSE, handle |-> "multi", pendingTransfers |-> EmptyMap,
     curlToAddr |-> EmptyMap, polling |-> FALSE, pollTimer |-> "null", immediates |-> 0,
     registered |-> {}, nativeDone |-> <<>>, msgQueue |-> <<>>, cleanupCalls |-> 0,
     futures |-> [c \in Curls |-> [outcome |-> NoFuture, settles |-> 0]],
     curlHandle |-> [c \in Curls |-> c],
     ret |-> "none", calls |-> {}, loop |-> "none", running |-> -1, fault |-> 0,
     settled |-> <<>>]

\* An instance that was not constructed yet.
NoMulti == [NewMulti EXCEPT !.created = FALSE]

NoSess == [state |-> "none", multi |-> 0, ownMulti |-> FALSE]

NoSharedOp == [op |-> "init", id |-> 0, ret |-> "none", settled |-> <<>>]

NoCall == [size |-> 0, nmemb |-> 0, isBuffer |-> FALSE,
           returns |-> [kind |-> "undefined", n |-> 0]]

NoCbOut == [done |-> FALSE, chunks |-> <<>>, ret |-> 0]

NoHdrOp == [op |-> "init", name |-> <<>>, value |-> "", had |-> 0, ret |-> <<>>]

\* No instance, no Session, no callback invocation and an empty Headers.
LibIdle ==
    /\ sharedMulti = 0
    /\ multis = [i \in MultiIds |-> NoMulti]
    /\ sharedClosing = 0
    /\ sess = [j \in Requests |-> NoSess]
    /\ sharedLast = NoSharedOp
    /\ cbArgs = NoCall
    /\ cbOut = NoCbOut
    /\ hdrData = EmptyMap
    /\ hdrLast = NoHdrOp

NoWsOp == [op |-> "init", id |-> 0, ret |-> "none", err |-> NoError, msg |-> NoMessage,
           frame |-> NoFrame, sends |-> <<>>, calls |-> {}]

\* ------------------------------------------------- Map<string, PendingTransfer>
MapGet(m, k) == IF k \in DOMAIN m THEN m[k] ELSE NoTransfer

MapSet(m, k, v) == [x \in (DOMAIN m) \cup {k} |-> IF x = k THEN v ELSE m[x]]

MapDelete(m, k) == [x \in (DOMAIN m) \ {k} |-> m[x]]

MapSize(m) == Cardinality(DOMAIN m)

\* ----------------------------------------------------------- Map<Curl, string>
AddrSet(m, c, a) == [x \in (DOMAIN m) \cup {c} |-> IF x = c THEN a ELSE m[x]]

AddrDelete(m, c) == [x \in (DOMAIN m) \ {c} |-> m[x]]

\* Then(v, Op) is Op(v) with v evaluated once, before Op is applied: the
\* statements of a handler run in sequence, each on the state the previous left.
Then(v, Op(_)) == CHOOSE r \in {Op(x) : x \in {v}} : TRUE

\* ------------------------------------------------------------------ promises
\* resolve()/reject() of the promise of future f: the first call decides the
\* promise, every call is counted, and the handler's calls are kept in order.
Settle(s, f, outcome) ==
    [s EXCEPT !.futures[f] = [outcome |-> IF @.outcome.kind = "pending" THEN outcome
                                          ELSE @.outcome,
                              settles |-> @.settles + 1],
              !.settled = Append(@, f)]

\* ------------------------------------------------------- native multi context
\* The statuses curl_multi_poll and curl_multi_perform can return.
PollCodes == {CURLM_OK} \cup FatalMultiCodes

PerformCodes == {CURLM_OK, CURLM_CALL_MULTI_PERFORM} \cup FatalMultiCodes

getHandleAddress(h) == h

\* curl_multi_add_handle: code is the status the engine returns.
curl_multi_add_handle(s, h, code) ==
    [s EXCEPT !.registered = IF code = CURLM_OK THEN @ \cup {h} ELSE @,
              !.calls = @ \cup {"curl_multi_add_handle"}]

\* The statuses the engine can return for adding h: a handle that is already
\* in a multi context is refused.
AddCodes(s, h) ==
    IF h \in s.registered THEN FatalMultiCodes ELSE {CURLM_OK} \cup FatalMultiCodes

\* curl_multi_remove_handle: the handle leaves the context, and so does its
\* completion message if it has one.
curl_multi_remove_handle(s, h) ==
    [s EXCEPT !.registered = @ \ {h},
              !.nativeDone = SelectSeq(@, LAMBDA m : m.easyHandle # h),
              !.msgQueue = SelectSeq(@, LAMBDA m : m.easyHandle # h),
              !.calls = @ \cup {"curl_multi_remove_handle"}]

\* curl_multi_perform: the engine notices the finished transfers, queues their
\* messages and reports how many registered transfers are still running.
curl_multi_perform(s) ==
    LET queue == s.msgQueue \o s.nativeDone
        finished == {queue[i].easyHandle : i \in 1..Len(queue)}
    IN  [s EXCEPT !.msgQueue = queue,
                  !.nativeDone = <<>>,
                  !.running = Cardinality(s.registered \ finished),
                  !.calls = @ \cup {"curl_multi_perform"}]

curl_multi_poll(s) == [s EXCEPT !.calls = @ \cup {"curl_multi_poll"}]

curl_multi_cleanup(s) ==
    [s EXCEPT !.registered = {}, !.nativeDone = <<>>, !.msgQueue = <<>>,
              !.cleanupCalls = @ + 1,
              !.calls = @ \cup {"curl_multi_cleanup"}]

\* ------------------------------------------------------------------ CurlMulti
\* The for-of loop of failAllPending over the entries not yet visited (keys).
\* The entries are visited in address order; the Map's insertion order is not
\* kept by this model.
RECURSIVE RejectAll(_, _, _)
RejectAll(s, keys, error) ==
    IF keys = {} THEN s
    ELSE LET k == CHOOSE x \in keys : \A y \in keys : x <= y
             pending == s.pendingTransfers[k]
             a == IF s.handle # "null" THEN curl_multi_remove_handle(s, pending.handle) ELSE s
         IN  Then(Settle(a, pending.fut, error), LAMBDA n : RejectAll(n, keys \ {k}, error))

\* Mutant of failAllPending: the records are rejected but never cleared.
failAllPending_keepRecords(s, error) ==
    RejectAll(s, DOMAIN s.pendingTransfers, error)

\* Mutant of failAllPending: the loop stops after the first record.
failAllPending_firstOnly(s, error) ==
    LET keys == DOMAIN s.pendingTransfers
        first == IF keys = {} THEN {} ELSE {CHOOSE x \in keys : \A y \in keys : x <= y}
    IN  [RejectAll(s, first, error) EXCEPT !.pendingTransfers = EmptyMap,
                                           !.curlToAddr = EmptyMap]

failAllPending(s, error) ==
    [RejectAll(s, DOMAIN s.pendingTransfers, error) EXCEPT !.pendingTransfers = EmptyMap,
                                                            !.curlToAddr = EmptyMap]

findPendingByHandle(s, completedHandle) ==
    MapGet(s.pendingTransfers, getHandleAddress(completedHandle))

\* Mutant of HandleMessage: a failed transfer fails the whole batch.
HandleMessage_broadcast(s, msg) ==
    LET pending == findPendingByHandle(s, msg.easyHandle)
    IN  IF msg.msg # CURLMSG_DONE \/ pending = NoTransfer THEN s
        ELSE IF msg.result = CURLE_OK
        THEN Settle([curl_multi_remove_handle(s, pending.handle)
                         EXCEPT !.pendingTransfers = MapDelete(@, pending.handleAddr),
                                !.curlToAddr = AddrDelete(@, pending.curl)],
                    pending.fut, TransferResult(msg.result))
        ELSE failAllPending(s, TransferFailed(msg.result))

\* Mutant of HandleMessage: the promise is settled while the record and the
\* native registration are left in place.
HandleMessage_keepRecord(s, msg) ==
    IF msg.msg = CURLMSG_DONE
    THEN LET pending == findPendingByHandle(s, msg.easyHandle)
         IN  IF pending # NoTransfer /\ s.futures[pending.fut].outcome = Pending
             THEN IF msg.result = CURLE_OK
                  THEN Settle(s, pending.fut, TransferResult(msg.result))
                  ELSE Settle(s, pending.fut, TransferFailed(msg.result))
             ELSE s
    ELSE s

\* The body of checkCompleted's loop for one message.
HandleMessage(s, msg) ==
    IF msg.msg = CURLMSG_DONE
    THEN LET pending == findPendingByHandle(s, msg.easyHandle)
         IN  IF pending # NoTransfer
             THEN LET a == curl_multi_remove_handle(s, pending.handle)
                      b == [a EXCEPT !.pendingTransfers = MapDelete(@, pending.handleAddr),
                                     !.curlToAddr = AddrDelete(@, pending.curl)]
                  IN  IF msg.result = CURLE_OK
                      THEN Settle(b, pending.fut, TransferResult(msg.result))
                      ELSE Settle(b, pending.fut, TransferFailed(msg.result))
             ELSE s
    ELSE s

\* Mutant of DrainMessages: one curl_multi_info_read per iteration, no loop.
DrainMessages_once(s) ==
    LET r == [s EXCEPT !.calls = @ \cup {"curl_multi_info_read"}]
    IN  IF r.msgQueue = <<>> THEN r
        ELSE HandleMessage([r EXCEPT !.msgQueue = Tail(@)], Head(r.msgQueue))

\* Mutant of DrainMessages: the newest message of the queue is taken first.
RECURSIVE DrainMessages_newestFirst(_)
DrainMessages_newestFirst(s) ==
    LET r == [s EXCEPT !.calls = @ \cup {"curl_multi_info_read"}]
        n == Len(r.msgQueue)
    IN  IF r.msgQueue = <<>> THEN r
        ELSE Then(HandleMessage([r EXCEPT !.msgQueue = SubSeq(@, 1, n - 1)], r.msgQueue[n]),
                  DrainMessages_newestFirst)

RECURSIVE DrainMessages(_)
DrainMessages(s) ==
    LET r == [s EXCEPT !.calls = @ \cup {"curl_multi_info_read"}]
    IN  IF r.msgQueue = <<>> THEN r
        ELSE Then(HandleMessage([r EXCEPT !.msgQueue = Tail(@)], Head(r.msgQueue)),
                  DrainMessages)

checkCompleted(s) == IF s.handle = "null" THEN s ELSE DrainMessages(s)

\* Mutant of pollLoopAfterWait: the next iteration is not scheduled.
pollLoopAfterWait_noReschedule(p, pollCode) ==
    IF pollCode # CURLM_OK
    THEN [failAllPending(p, PollFailed(pollCode))
              EXCEPT !.polling = FALSE, !.loop = "poll_fault", !.fault = pollCode]
    ELSE [p EXCEPT !.loop = "rescheduled"]

\* pollLoop after curl_multi_poll returned pollCode.
pollLoopAfterWait(p, pollCode) ==
    IF pollCode # CURLM_OK
    THEN [failAllPending(p, PollFailed(pollCode))
              EXCEPT !.polling = FALSE, !.loop = "poll_fault", !.fault = pollCode]
    ELSE [p EXCEPT !.pollTimer = "live", !.immediates = @ + 1, !.loop = "rescheduled"]

\* Mutant of pollLoopAfterAdvance: every status but CURLM_OK is a fault.
pollLoopAfterAdvance_strict(a, performCode) ==
    IF performCode # CURLM_OK
    THEN {[failAllPending(a, PerformFailed(performCode))
               EXCEPT !.polling = FALSE, !.loop = "perform_fault", !.fault = performCode]}
    ELSE UNION {IF c.running > 0 \/ MapSize(c.pendingTransfers) > 0
                THEN {pollLoopAfterWait(p, pollCode) :
                          p \in {curl_multi_poll(c)}, pollCode \in PollCodes}
                ELSE {[c EXCEPT !.polling = FALSE, !.loop = "stopped"]} :
                    c \in {checkCompleted(a)}}

\* pollLoop after curl_multi_perform returned performCode: the set of states
\* it can end in, one per status curl_multi_poll can return.
pollLoopAfterAdvance(a, performCode) ==
    IF performCode # CURLM_OK /\ performCode # CURLM_CALL_MULTI_PERFORM
    THEN {[failAllPending(a, PerformFailed(performCode))
               EXCEPT !.polling = FALSE, !.loop = "perform_fault", !.fault = performCode]}
    ELSE UNION {IF c.running > 0 \/ MapSize(c.pendingTransfers) > 0
                THEN {pollLoopAfterWait(p, pollCode) :
                          p \in {curl_multi_poll(c)}, pollCode \in PollCodes}
                ELSE {[c EXCEPT !.polling = FALSE, !.loop = "stopped"]} :
                    c \in {checkCompleted(a)}}

\* One iteration of pollLoop: the set of states it can end in, one per pair
\* of statuses the engine can return.
pollLoop(s) ==
    IF s.closed \/ s.handle = "null" \/ MapSize(s.pendingTransfers) = 0
    THEN {[s EXCEPT !.polling = FALSE, !.loop = "idle"]}
    ELSE UNION {pollLoopAfterAdvance(a, performCode) :
                    a \in {curl_multi_perform(s)}, performCode \in PerformCodes}

\* Mutant of startPolling: the polling flag is not tested.
startPolling_noFlag(s) ==
    IF s.closed THEN {s}
    ELSE pollLoop([s EXCEPT !.polling = TRUE])

\* Mutant of startPolling: the flag is set but no iteration is run.
startPolling_flagOnly(s) ==
    IF s.polling \/ s.closed THEN {s}
    ELSE {[s EXCEPT !.polling = TRUE]}

startPolling(s) ==
    IF s.polling \/ s.closed THEN {s}
    ELSE pollLoop([s EXCEPT !.polling = TRUE])

\* Mutant of performAfterAdd: the status of curl_multi_add_handle is not checked.
performAfterAdd_ignoreCode(a, curl, easyHandle, addCode) ==
    LET handleAddr == getHandleAddress(easyHandle)
        f == curl
        transfer == [curl |-> curl, handle |-> easyHandle,
                     handleAddr |-> handleAddr, fut |-> f]
        b == [a EXCEPT !.futures[f] = [outcome |-> Pending, settles |-> 0],
                       !.pendingTransfers = MapSet(@, handleAddr, transfer),
                       !.curlToAddr = AddrSet(@, curl, handleAddr),
                       !.ret = "accepted"]
    IN  startPolling(b)

\* perform() after curl_multi_add_handle returned addCode.
performAfterAdd(a, curl, easyHandle, addCode) ==
    IF addCode # CURLM_OK
    THEN {[a EXCEPT !.ret = "AddHandleFailed", !.fault = addCode]}
    ELSE LET handleAddr == getHandleAddress(easyHandle)
             f == curl
             transfer == [curl |-> curl, handle |-> easyHandle,
                          handleAddr |-> handleAddr, fut |-> f]
             b == [a EXCEPT !.futures[f] = [outcome |-> Pending, settles |-> 0],
                            !.pendingTransfers = MapSet(@, handleAddr, transfer),
                            !.curlToAddr = AddrSet(@, curl, handleAddr),
                            !.ret = "accepted"]
         IN  startPolling(b)

\* Mutant of perform: the closed flag is not checked.
perform_noClosedCheck(s, curl) ==
    IF s.handle = "null" THEN {[s EXCEPT !.ret = "MultiHandleNull"]}
    ELSE IF s.curlHandle[curl] = NullHandle THEN {[s EXCEPT !.ret = "CurlHandleNull"]}
    ELSE LET easyHandle == s.curlHandle[curl]
         IN  UNION {performAfterAdd(curl_multi_add_handle(s, easyHandle, addCode),
                                    curl, easyHandle, addCode) :
                        addCode \in AddCodes(s, easyHandle)}

\* Mutant of perform: neither the closed flag nor the context is checked.
perform_noChecks(s, curl) ==
    IF s.curlHandle[curl] = NullHandle THEN {[s EXCEPT !.ret = "CurlHandleNull"]}
    ELSE LET easyHandle == s.curlHandle[curl]
         IN  UNION {performAfterAdd(curl_multi_add_handle(s, easyHandle, addCode),
                                    curl, easyHandle, addCode) :
                        addCode \in AddCodes(s, easyHandle)}

perform(s, curl) ==
    IF s.closed THEN {[s EXCEPT !.ret = "AlreadyClosed"]}
    ELSE IF s.handle = "null" THEN {[s EXCEPT !.ret = "MultiHandleNull"]}
    ELSE IF s.curlHandle[curl] = NullHandle THEN {[s EXCEPT !.ret = "CurlHandleNull"]}
    ELSE LET easyHandle == s.curlHandle[curl]
         IN  UNION {performAfterAdd(curl_multi_add_handle(s, easyHandle, addCode),
                                    curl, easyHandle, addCode) :
                        addCode \in AddCodes(s, easyHandle)}

\* Mutant of cancel: the handle stays registered with the native context.
cancel_noUnregister(s, curl) ==
    IF s.handle = "null" \/ curl \notin DOMAIN s.curlToAddr THEN [s EXCEPT !.ret = "false"]
    ELSE LET handleAddr == s.curlToAddr[curl]
             pending == MapGet(s.pendingTransfers, handleAddr)
         IN  IF pending = NoTransfer THEN [s EXCEPT !.ret = "false"]
             ELSE [Settle([s EXCEPT !.pendingTransfers = MapDelete(@, handleAddr),
                                    !.curlToAddr = AddrDelete(@, curl)],
                          pending.fut, Cancelled) EXCEPT !.ret = "true"]

\* Mutant of cancel: the record is removed but its promise is never rejected.
cancel_noReject(s, curl) ==
    IF s.handle = "null" \/ curl \notin DOMAIN s.curlToAddr THEN [s EXCEPT !.ret = "false"]
    ELSE LET handleAddr == s.curlToAddr[curl]
             pending == MapGet(s.pendingTransfers, handleAddr)
         IN  IF pending = NoTransfer THEN [s EXCEPT !.ret = "false"]
             ELSE LET a == curl_multi_remove_handle(s, pending.handle)
                  IN  [a EXCEPT !.pendingTransfers = MapDelete(@, handleAddr),
                                !.curlToAddr = AddrDelete(@, curl),
                                !.ret = "true"]

cancel(s, curl) ==
    IF s.handle = "null" THEN [s EXCEPT !.ret = "false"]
    ELSE IF curl \notin DOMAIN s.curlToAddr THEN [s EXCEPT !.ret = "false"]
    ELSE LET handleAddr == s.curlToAddr[curl]
             pending == MapGet(s.pendingTransfers, handleAddr)
         IN  IF pending = NoTransfer THEN [s EXCEPT !.ret = "false"]
             ELSE LET a == curl_multi_remove_handle(s, pending.handle)
                      b == [a EXCEPT !.pendingTransfers = MapDelete(@, handleAddr),
                                     !.curlToAddr = AddrDelete(@, curl)]
                  IN  [Settle(b, pending.fut, Cancelled) EXCEPT !.ret = "true"]

\* Mutant of clearImmediate: the queued callback is left in the event loop.
clearImmediate_noop(s) == s

clearImmediate(s) ==
    [s EXCEPT !.immediates = IF s.pollTimer = "live" THEN @ - 1 ELSE @]

close(s) ==
    IF s.closed THEN [s EXCEPT !.ret = "noop"]
    ELSE LET a == [s EXCEPT !.closed = TRUE]
             b == IF a.pollTimer # "null"
                  THEN [clearImmediate(a) EXCEPT !.pollTimer = "null"]
                  ELSE a
             c == failAllPending(b, SchedulerClosed)
             d == IF c.handle # "null"
                  THEN [curl_multi_cleanup(c) EXCEPT !.handle = "null"]
                  ELSE c
         IN  [d EXCEPT !.ret = "closed"]

\* -------------------------------------------------------------------- actions
Install(s, op, curl) ==
    /\ closed' = s.closed
    /\ handle' = s.handle
    /\ pendingTransfers' = s.pendingTransfers
    /\ curlToAddr' = s.curlToAddr
    /\ polling' = s.polling
    /\ pollTimer' = s.pollTimer
    /\ immediates' = s.immediates
    /\ registered' = s.registered
    /\ nativeDone' = s.nativeDone
    /\ msgQueue' = s.msgQueue
    /\ cleanupCalls' = s.cleanupCalls
    /\ futures' = s.futures
    /\ lastOp' = [op |-> op, curl |-> curl, ret |-> s.ret, calls |-> s.calls,
                  loop |-> s.loop, running |-> s.running, fault |-> s.fault,
                  settled |-> s.settled]

\* A caller submits a Curl object.  A Curl object is created per transfer
\* (Session.request), so it is not submitted again once its transfer has
\* been settled; a second perform() of it while the first is pending can
\* be attempted at any time.
Perform(curl) ==
    /\ \E s \in perform(Cur, curl) :
        /\ s.ret = "accepted" => futures[curl].outcome.kind \in {"none", "pending"}
        /\ Install(s, "perform", curl)
    /\ UNCHANGED <<curlHandle, curlVars, sessionVars, wsVars, roundTripVars, libVars>>

\* A caller cancels a Curl object's transfer.
Cancel(curl) ==
    /\ Install(cancel(Cur, curl), "cancel", curl)
    /\ UNCHANGED <<curlHandle, curlVars, sessionVars, wsVars, roundTripVars, libVars>>

\* A caller closes the scheduler.
Close ==
    /\ Install(close(Cur), "close", 0)
    /\ UNCHANGED <<curlHandle, curlVars, sessionVars, wsVars, roundTripVars, libVars>>

\* The event loop runs a queued pollLoop callback.
TimerFire ==
    /\ immediates > 0
    /\ \E s \in pollLoop([Cur EXCEPT !.immediates = @ - 1,
                                     !.pollTimer = IF @ = "live" /\ immediates = 1
                                                   THEN "fired" ELSE @]) :
        Install(s, "pollLoop", 0)
    /\ UNCHANGED <<curlHandle, curlVars, sessionVars, wsVars, roundTripVars, libVars>>

\* The network finishes the transfer of a registered handle with a CURLcode.
NativeFinish(h, result) ==
    /\ h \in registered
    /\ \A i \in 1..Len(nativeDone) : nativeDone[i].easyHandle # h
    /\ \A i \in 1..Len(msgQueue) : msgQueue[i].easyHandle # h
    /\ nativeDone' = Append(nativeDone,
                            [msg |-> CURLMSG_DONE, easyHandle |-> h, result |-> result])
    /\ lastOp' = [NoOp EXCEPT !.op = "native"]
    /\ UNCHANGED <<closed, handle, pendingTransfers, curlToAddr, polling, pollTimer,
                   immediates, curlHandle, registered, msgQueue, cleanupCalls, futures,
                   curlVars, sessionVars, wsVars, roundTripVars, libVars>>

Init ==
    /\ closed = FALSE
    /\ handle = "multi"
    /\ pendingTransfers = EmptyMap
    /\ curlToAddr = EmptyMap
    /\ polling = FALSE
    /\ pollTimer = "null"
    /\ immediates = 0
    /\ curlHandle = [c \in Curls |-> c]
    /\ registered = {}
    /\ nativeDone = <<>>
    /\ msgQueue = <<>>
    /\ cleanupCalls = 0
    /\ futures = [c \in Curls |-> [outcome |-> NoFuture, settles |-> 0]]
    /\ lastOp = NoOp
    /\ curlSlists = [c \in Curls |-> <<>>]
    /\ easyCleanups = [c \in Curls |-> 0]
    /\ slistFrees = [c \in Curls |-> [l \in Lists |-> 0]]
    /\ reqState = [c \in Curls |-> "new"]
    /\ exitPath = [c \in Curls |-> "none"]
    /\ sessionClosed = FALSE
    /\ ownMulti = FALSE
    /\ wsPhase = "none"
    /\ wsConnected = FALSE
    /\ wsClosed = FALSE
    /\ wsCloseEvent = NoCloseEvent
    /\ wsRecv = [r \in RecvIds |-> "idle"]
    /\ wsTimers = {}
    /\ wsPollTimer = 0
    /\ wsClosing = [k \in CloseIds |-> NotClosing]
    /\ wsInbox = NoFrame
    /\ wsLast = NoWsOp
    /\ wsMulti = 0
    /\ wsIter = NoIteration
    /\ LibIdle
    /\ RoundTripIdle

Next ==
    \/ \E curl \in Curls : Perform(curl)
    \/ \E curl \in Curls : Cancel(curl)
    \/ Close
    \/ TimerFire
    \/ \E h \in Curls, result \in ResultCodes : NativeFinish(h, result)

Spec == Init /\ [][Next]_vars

\* The poll loop's callbacks run (setImmediate callbacks are always run by the
\* event loop) and the network finishes every registered transfer.
FairSpec ==
    /\ Spec
    /\ WF_vars(TimerFire)
    /\ \A h \in Curls : WF_vars(\E result \in ResultCodes : NativeFinish(h, result))

\* ----------------------------------------------------------------------- Curl
\* The fields of Curl object c and the native calls made for it, as one value.
CurlObj(c) ==
    [handle |-> curlHandle[c], slists |-> curlSlists[c],
     easyCleanups |-> easyCleanups[c], slistFrees |-> slistFrees[c],
     ret |-> "none", calls |-> {}]

\* SList.free of the i-th list of _slists.
SListFree(o, i) ==
    IF o.slists[i] # 0
    THEN [o EXCEPT !.slistFrees[o.slists[i]] = @ + 1,
                   !.slists[i] = 0,
                   !.calls = @ \cup {"curl_slist_free_all"}]
    ELSE o

\* this._slists.forEach((list) => list.free()), from the i-th list on.
RECURSIVE FreeLists(_, _)
FreeLists(o, i) ==
    IF i > Len(o.slists) THEN o
    ELSE FreeLists(SListFree(o, i), i + 1)

\* Mutant of cleanup: the handle reference is kept after the native release.
cleanup_keepHandle(o) ==
    LET a == [FreeLists(o, 1) EXCEPT !.slists = <<>>]
    IN  IF a.handle # NullHandle
        THEN [a EXCEPT !.easyCleanups = @ + 1,
                       !.calls = @ \cup {"curl_easy_cleanup"}]
        ELSE a

\* Curl.cleanup.
cleanup(o) ==
    LET a == [FreeLists(o, 1) EXCEPT !.slists = <<>>]
    IN  IF a.handle # NullHandle
        THEN [a EXCEPT !.easyCleanups = @ + 1,
                       !.handle = NullHandle,
                       !.calls = @ \cup {"curl_easy_cleanup"}]
        ELSE a

\* The Curl object c takes the fields and native counts of o.
InstallCurl(c, o) ==
    /\ curlHandle' = [curlHandle EXCEPT ![c] = o.handle]
    /\ curlSlists' = [curlSlists EXCEPT ![c] = o.slists]
    /\ easyCleanups' = [easyCleanups EXCEPT ![c] = o.easyCleanups]
    /\ slistFrees' = [slistFrees EXCEPT ![c] = o.slistFrees]

\* curl_easy_init: the addresses a new handle can get, any address that no
\* live handle has (the address of a released handle can come back).  One
\* address per request is enough for all of them to be live at once.
FreeAddrs == Requests \ {curlHandle[c] : c \in Curls}

\* -------------------------------------------------------------------- Session
schedulerVars == <<closed, handle, pendingTransfers, curlToAddr, polling, pollTimer,
                   immediates, registered, nativeDone, msgQueue, cleanupCalls, futures>>

\* Session.request on a closed session: SessionClosed, before a Curl is created.
RequestRefused(c) ==
    /\ sessionClosed
    /\ lastOp' = [NoOp EXCEPT !.op = "request", !.curl = c, !.ret = "SessionClosed"]
    /\ UNCHANGED <<schedulerVars, curlHandle, curlVars, sessionVars, wsVars, roundTripVars, libVars>>

\* Session.request when an option is refused while the handle is configured
\* (setOpt throws): the finally releases the new handle.
RequestThrows(c) ==
    /\ ~sessionClosed
    /\ \E a \in FreeAddrs :
        LET o == cleanup([CurlObj(c) EXCEPT !.handle = a, !.calls = {"curl_easy_init"}])
        IN  /\ InstallCurl(c, o)
            /\ lastOp' = [NoOp EXCEPT !.op = "request", !.curl = c, !.ret = "ConfigError",
                                       !.calls = o.calls]
    /\ reqState' = [reqState EXCEPT ![c] = "done"]
    /\ exitPath' = [exitPath EXCEPT ![c] = "ConfigError"]
    /\ UNCHANGED <<schedulerVars, sessionClosed, ownMulti, wsVars, roundTripVars, libVars>>

\* Session.request up to its await: the handle is created and configured and
\* multi.perform(curl) is called.
RequestSubmits(c) ==
    /\ ~sessionClosed
    /\ \E a \in FreeAddrs :
        \E s \in perform([Cur EXCEPT !.curlHandle[c] = a], c) :
            /\ Install(s, "request", c)
            /\ curlHandle' = [curlHandle EXCEPT ![c] = a]
            /\ exitPath' = [exitPath EXCEPT ![c] = IF s.ret = "accepted" THEN "awaiting"
                                                   ELSE s.ret]
    /\ reqState' = [reqState EXCEPT ![c] = "awaiting"]
    /\ UNCHANGED <<curlVars, sessionClosed, ownMulti, wsVars, roundTripVars, libVars>>

\* A caller starts a request; every request has its own Curl object.
Request(c) ==
    /\ reqState[c] = "new"
    /\ \A d \in Requests : d < c => reqState[d] # "new"
    /\ \/ RequestRefused(c)
       \/ RequestThrows(c)
       \/ RequestSubmits(c)

\* Mutant of Resume: the Curl object is released only after a successful transfer.
Resume_leakOnError(c) ==
    /\ reqState[c] = "awaiting"
    /\ futures[c].outcome.kind # "pending"
    /\ LET o == IF futures[c].outcome.kind = "resolved" THEN cleanup(CurlObj(c))
                 ELSE CurlObj(c)
       IN  /\ InstallCurl(c, o)
           /\ lastOp' = [NoOp EXCEPT !.op = "resume", !.curl = c, !.calls = o.calls]
    /\ reqState' = [reqState EXCEPT ![c] = "done"]
    /\ exitPath' = [exitPath EXCEPT ![c] = IF @ = "awaiting" THEN futures[c].outcome.kind
                                           ELSE @]
    /\ UNCHANGED <<schedulerVars, sessionClosed, ownMulti, wsVars, roundTripVars, libVars>>

\* Session.request after its await: the promise of multi.perform is settled
\* and the finally releases the Curl object.  The continuation is a microtask.
Resume(c) ==
    /\ reqState[c] = "awaiting"
    /\ futures[c].outcome.kind # "pending"
    /\ LET o == cleanup(CurlObj(c))
       IN  /\ InstallCurl(c, o)
           /\ lastOp' = [NoOp EXCEPT !.op = "resume", !.curl = c, !.calls = o.calls]
    /\ reqState' = [reqState EXCEPT ![c] = "done"]
    /\ exitPath' = [exitPath EXCEPT ![c] = IF @ = "awaiting" THEN futures[c].outcome.kind
                                           ELSE @]
    /\ UNCHANGED <<schedulerVars, sessionClosed, ownMulti, wsVars, roundTripVars, libVars>>

\* Session.close: the session's own scheduler is closed with it.
SessionClose ==
    /\ ~sessionClosed
    /\ sessionClosed' = TRUE
    /\ IF ownMulti
       THEN Install(close(Cur), "sessionClose", 0)
       ELSE /\ lastOp' = [NoOp EXCEPT !.op = "sessionClose"]
            /\ UNCHANGED schedulerVars
    /\ UNCHANGED <<curlHandle, curlVars, reqState, exitPath, ownMulti, wsVars, roundTripVars, libVars>>

\* closeSharedMulti: the shared scheduler is closed under the session.
SharedClose ==
    /\ ~ownMulti
    /\ Close

\* A session with its own scheduler or with the shared one; no Curl object
\* exists yet.
SessionInit ==
    /\ closed = FALSE
    /\ handle = "multi"
    /\ pendingTransfers = EmptyMap
    /\ curlToAddr = EmptyMap
    /\ polling = FALSE
    /\ pollTimer = "null"
    /\ immediates = 0
    /\ curlHandle = [c \in Curls |-> NullHandle]
    /\ registered = {}
    /\ nativeDone = <<>>
    /\ msgQueue = <<>>
    /\ cleanupCalls = 0
    /\ futures = [c \in Curls |-> [outcome |-> NoFuture, settles |-> 0]]
    /\ lastOp = NoOp
    /\ curlSlists = [c \in Curls |-> <<>>]
    /\ easyCleanups = [c \in Curls |-> 0]
    /\ slistFrees = [c \in Curls |-> [l \in Lists |-> 0]]
    /\ reqState = [c \in Curls |-> "new"]
    /\ exitPath = [c \in Curls |-> "none"]
    /\ sessionClosed = FALSE
    /\ ownMulti \in BOOLEAN
    /\ wsPhase = "none"
    /\ wsConnected = FALSE
    /\ wsClosed = FALSE
    /\ wsCloseEvent = NoCloseEvent
    /\ wsRecv = [r \in RecvIds |-> "idle"]
    /\ wsTimers = {}
    /\ wsPollTimer = 0
    /\ wsClosing = [k \in CloseIds |-> NotClosing]
    /\ wsInbox = NoFrame
    /\ wsLast = NoWsOp
    /\ wsMulti = 0
    /\ wsIter = NoIteration
    /\ LibIdle
    /\ RoundTripIdle

\* A continuation of request() is waiting to run.
MicrotaskQueued ==
    \E c \in Requests : reqState[c] = "awaiting" /\ futures[c].outcome.kind # "pending"

\* The event loop runs a queued pollLoop callback; setImmediate callbacks run
\* only when the microtask queue is empty.
SessionTimerFire ==
    /\ ~MicrotaskQueued
    /\ TimerFire

\* A holder of the request's Curl object cancels its transfer.
SessionCancel(c) ==
    /\ reqState[c] = "awaiting"
    /\ Cancel(c)

SessionNext ==
    \/ \E c \in Requests : Request(c)
    \/ \E c \in Requests : Resume(c)
    \/ \E c \in Requests : SessionCancel(c)
    \/ SessionClose
    \/ SharedClose
    \/ SessionTimerFire
    \/ \E h \in Requests, result \in ResultCodes : NativeFinish(h, result)

SessionSpec == SessionInit /\ [][SessionNext]_vars

\* ------------------------------------------------------- Curl object, alone
\* The header lists Curl object c has created so far.
ListsMade(c) ==
    {l \in Lists : slistFrees[c][l] > 0 \/ \E i \in 1..Len(curlSlists[c]) : curlSlists[c][i] = l}

\* Curl.setOpt on object o: throws on a released Curl before any native call;
\* otherwise code is the status of curl_easy_setopt.
setOpt(o, code) ==
    IF o.handle = NullHandle THEN [o EXCEPT !.ret = "CurlHandleNull"]
    ELSE [o EXCEPT !.calls = @ \cup {"curl_easy_setopt"},
                   !.ret = IF code = CURLE_OK THEN "ok" ELSE "CurlError"]

\* Curl.setHeaders with a non-empty array: the new list (pointer l) is stored
\* in _slists before setOpt is called.
setHeaders(o, l, code) ==
    setOpt([o EXCEPT !.slists = Append(@, l),
                     !.calls = @ \cup {"curl_slist_append"}], code)

\* Curl.perform (synchronous).
easyPerform(o, code) ==
    IF o.handle = NullHandle THEN [o EXCEPT !.ret = "CurlHandleNull"]
    ELSE [o EXCEPT !.calls = @ \cup {"curl_easy_perform"},
                   !.ret = IF code = CURLE_OK THEN "ok" ELSE "CurlError"]

\* Curl.reset.
reset(o) ==
    IF o.handle = NullHandle THEN [o EXCEPT !.ret = "CurlHandleNull"]
    ELSE [FreeLists(o, 1) EXCEPT !.slists = <<>>,
                                 !.calls = @ \cup {"curl_easy_reset"},
                                 !.ret = "ok"]

\* Curl.getHandle.
getHandle(o) == [o EXCEPT !.ret = IF o.handle = NullHandle THEN "null" ELSE "handle"]

\* Curl object c runs a method that leaves it as o.
CurlStep(c, op, o) ==
    /\ InstallCurl(c, o)
    /\ lastOp' = [NoOp EXCEPT !.op = op, !.curl = c, !.ret = o.ret, !.calls = o.calls]
    /\ UNCHANGED <<schedulerVars, sessionVars, wsVars, roundTripVars, libVars>>

CurlSetHeaders(c) ==
    /\ ListsMade(c) # Lists
    /\ \E code \in ResultCodes :
        CurlStep(c, "setHeaders",
                 setHeaders(CurlObj(c), CHOOSE l \in Lists \ ListsMade(c) :
                                            \A m \in Lists \ ListsMade(c) : l <= m, code))

CurlSetOpt(c) ==
    \E code \in ResultCodes : CurlStep(c, "setOpt", setOpt(CurlObj(c), code))

CurlPerform(c) ==
    \E code \in ResultCodes : CurlStep(c, "perform", easyPerform(CurlObj(c), code))

CurlReset(c) == CurlStep(c, "reset", reset(CurlObj(c)))

CurlGetHandle(c) == CurlStep(c, "getHandle", getHandle(CurlObj(c)))

CurlCleanup(c) == CurlStep(c, "cleanup", cleanup(CurlObj(c)))

\* Curl objects used on their own, outside a scheduler.
CurlNext ==
    \E c \in Requests :
        \/ CurlSetHeaders(c)
        \/ CurlSetOpt(c)
        \/ CurlPerform(c)
        \/ CurlReset(c)
        \/ CurlGetHandle(c)
        \/ CurlCleanup(c)

CurlSpec == Init /\ [][CurlNext]_vars

\* ------------------------------------------------------------- AsyncWebSocket
\* The Curl object of the session.
WsCurl == 1

\* The frame flags the engine reports: one type bit, no known bit, or no frame
\* information at all (NoFrameInfo).
NoFrameInfo == -1

FrameFlags == {CURLWS_TEXT, CURLWS_BINARY, CURLWS_CLOSE, CURLWS_PING, CURLWS_PONG, 0,
               NoFrameInfo}

\* The frames the peer can send, as curl_ws_recv returns them. Only the
\* payload of a close frame is decoded; the other frames carry no byte or one.
Frames ==
    {[code |-> CURLE_OK, received |-> Len(d), flags |-> CURLWS_CLOSE, data |-> d] :
        d \in Payloads}
    \cup {[code |-> CURLE_OK, received |-> Len(d), flags |-> f, data |-> d] :
              d \in {<<>>, <<3>>}, f \in FrameFlags \ {CURLWS_CLOSE}}

\* What curl_ws_recv can return: the frame that has arrived, or else nothing
\* available or an error.
RecvResults(w) ==
    IF w.inbox # NoFrame THEN {w.inbox}
    ELSE {[code |-> c, received |-> 0, flags |-> NoFrameInfo, data |-> <<>>] :
              c \in {CURLE_AGAIN} \cup (ResultCodes \ {CURLE_OK})}

\* The byte counts curl_ws_send can report for data: with a success code all
\* of it or one byte less, with another code none.
SentCounts(data, code) ==
    IF code # CURLE_OK THEN {0}
    ELSE {Len(data)} \cup (IF Len(data) > 0 THEN {Len(data) - 1} ELSE {})

\* flags & bit
HasFlag(flags, bit) == (flags \div bit) % 2 = 1

\* U+FFFD, which the decoder puts in the place of a malformed sequence.
ReplacementChar == 65533

\* bytes[j] exists and lies in lo..hi.
ByteIn(bytes, j, lo, hi) == j <= Len(bytes) /\ bytes[j] >= lo /\ bytes[j] <= hi

\* The UTF-8 decoder from byte i on, for sequences of one to three bytes (bytes
\* below 240): a well-formed sequence gives its code point, a malformed or cut
\* one gives one U+FFFD for its longest well-formed start.
RECURSIVE decodeUtf8(_, _)
decodeUtf8(bytes, i) ==
    IF i > Len(bytes) THEN <<>>
    ELSE LET b == bytes[i]
         IN  IF b < 128 THEN <<b>> \o decodeUtf8(bytes, i + 1)
             ELSE IF b >= 194 /\ b <= 223 /\ ByteIn(bytes, i + 1, 128, 191)
             THEN <<(b - 192) * 64 + (bytes[i + 1] - 128)>> \o decodeUtf8(bytes, i + 2)
             ELSE IF b >= 224 /\ b <= 239
                     /\ ByteIn(bytes, i + 1, IF b = 224 THEN 160 ELSE 128,
                                            IF b = 237 THEN 159 ELSE 191)
             THEN IF ByteIn(bytes, i + 2, 128, 191)
                  THEN <<(b - 224) * 4096 + (bytes[i + 1] - 128) * 64 + (bytes[i + 2] - 128)>>
                           \o decodeUtf8(bytes, i + 3)
                  ELSE <<ReplacementChar>> \o decodeUtf8(bytes, i + 2)
             ELSE <<ReplacementChar>> \o decodeUtf8(bytes, i + 1)

\* Buffer.toString("latin1"): one code point per byte.
toStringUtf8_latin1(bytes) == bytes

\* Buffer.toString("utf-8"): the string as the sequence of its code points.
toStringUtf8(bytes) == decodeUtf8(bytes, 1)

\* The UTF-8 bytes of one code point of the Basic Multilingual Plane.
encodeCodePoint(cp) ==
    IF cp < 128 THEN <<cp>>
    ELSE IF cp < 2048 THEN <<192 + (cp \div 64), 128 + (cp % 64)>>
    ELSE <<224 + (cp \div 4096), 128 + ((cp \div 64) % 64), 128 + (cp % 64)>>

\* Buffer.from(text, "utf-8") for a string of code points of the Basic
\* Multilingual Plane.
RECURSIVE fromStringUtf8(_)
fromStringUtf8(text) ==
    IF text = <<>> THEN <<>>
    ELSE encodeCodePoint(Head(text)) \o fromStringUtf8(Tail(text))

\* The session and its Curl object as one value, threaded through the handlers.
WsCur ==
    [phase |-> wsPhase, connected |-> wsConnected, closed |-> wsClosed,
     closeEvent |-> wsCloseEvent, recv |-> wsRecv, timers |-> wsTimers,
     pollTimer |-> wsPollTimer, closing |-> wsClosing, inbox |-> wsInbox,
     multi |-> wsMulti,
     curl |-> CurlObj(WsCurl),
     ret |-> "none", err |-> NoError, msg |-> NoMessage, frame |-> NoFrame,
     sends |-> <<>>, calls |-> {}]

\* this._closeEvent?.code || d
closeCodeOr(w, d) == IF w.closeEvent.set /\ w.closeEvent.code # 0 THEN w.closeEvent.code ELSE d

\* this._closeEvent?.reason || d
closeReasonOr(w, d) ==
    IF w.closeEvent.set /\ w.closeEvent.reason # <<>> THEN w.closeEvent.reason ELSE d

curl_ws_send(w, data, flags, code, sent) ==
    [w EXCEPT !.sends = Append(@, [flags |-> flags, data |-> data, code |-> code,
                                   sent |-> sent]),
              !.calls = @ \cup {"curl_ws_send"}]

\* sendRaw that accepts a partial write.
sendRawAfterSend_ignoreSent(a, data, code, sent) ==
    IF code # CURLE_OK
    THEN [a EXCEPT !.ret = "throw", !.err = WebSocketError("Send failed", code)]
    ELSE [a EXCEPT !.ret = "ok"]

\* sendRaw after curl_ws_send returned (code, sent).
sendRawAfterSend(a, data, code, sent) ==
    IF code # CURLE_OK
    THEN [a EXCEPT !.ret = "throw", !.err = WebSocketError("Send failed", code)]
    ELSE IF sent # Len(data)
    THEN [a EXCEPT !.ret = "throw", !.err = WebSocketError("Incomplete send", sent)]
    ELSE [a EXCEPT !.ret = "ok"]

\* sendRaw without its test of _closed.
sendRaw_noClosedCheck(w, data, flags) ==
    UNION {{sendRawAfterSend(curl_ws_send(w, data, flags, code, sent), data, code, sent) :
                sent \in SentCounts(data, code)} : code \in ResultCodes}

\* sendRaw: the set of states it can end in, one per result of curl_ws_send.
sendRaw(w, data, flags) ==
    IF w.closed
    THEN {[w EXCEPT !.ret = "throw",
                    !.err = WebSocketClosed(closeCodeOr(w, AbnormalClosure),
                                            closeReasonOr(w, ConnectionClosedText))]}
    ELSE UNION {{sendRawAfterSend(curl_ws_send(w, data, flags, code, sent), data, code, sent) :
                     sent \in SentCounts(data, code)} : code \in ResultCodes}

sendPong(w, data) == sendRaw(w, data, CURLWS_PONG)

frameToMessage(data, flags) ==
    IF HasFlag(flags, CURLWS_TEXT) THEN [type |-> "text", data |-> data]
    ELSE IF HasFlag(flags, CURLWS_BINARY) THEN [type |-> "binary", data |-> data]
    ELSE IF HasFlag(flags, CURLWS_PING) THEN [type |-> "ping", data |-> data]
    ELSE IF HasFlag(flags, CURLWS_PONG) THEN [type |-> "pong", data |-> data]
    ELSE IF HasFlag(flags, CURLWS_CLOSE) THEN [type |-> "close", data |-> data]
    ELSE [type |-> "binary", data |-> data]

\* handleCloseFrame that leaves _connected as it is.
handleCloseFrame_keepConnected(w, data) ==
    LET code == IF Len(data) >= 2 THEN data[1] * 256 + data[2] ELSE NormalClosure
        reason == IF Len(data) > 2 THEN toStringUtf8(SubSeq(data, 3, Len(data))) ELSE <<>>
    IN  [w EXCEPT !.closeEvent = CloseEvent(code, reason),
                  !.closed = TRUE]

handleCloseFrame(w, data) ==
    LET code == IF Len(data) >= 2 THEN data[1] * 256 + data[2] ELSE NormalClosure
        reason == IF Len(data) > 2 THEN toStringUtf8(SubSeq(data, 3, Len(data))) ELSE <<>>
    IN  [w EXCEPT !.closeEvent = CloseEvent(code, reason),
                  !.closed = TRUE,
                  !.connected = FALSE]

\* tryReceive after curl_ws_recv returned res.
tryReceiveAfterRead(a, res) ==
    IF res.code = CURLE_OK /\ res.received > 0
    THEN LET data == SubSeq(res.data, 1, res.received)
             flags == IF res.flags = NoFrameInfo THEN CURLWS_TEXT ELSE res.flags
             message == frameToMessage(data, flags)
         IN  IF message.type = "close"
             THEN {[c EXCEPT !.ret = "throw",
                             !.err = WebSocketClosed(closeCodeOr(c, NormalClosure),
                                                     closeReasonOr(c, <<>>))] :
                       c \in {handleCloseFrame(a, message.data)}}
             ELSE IF message.type = "ping"
             THEN {[p EXCEPT !.ret = "message", !.err = NoError, !.msg = message] :
                       p \in sendPong(a, message.data)}
             ELSE {[a EXCEPT !.ret = "message", !.msg = message]}
    ELSE IF res.code = CURLE_AGAIN THEN {[a EXCEPT !.ret = "null"]}
    ELSE IF res.code # CURLE_OK
    THEN {[a EXCEPT !.ret = "throw", !.err = WebSocketError("Receive error", res.code)]}
    ELSE {[a EXCEPT !.ret = "null"]}

\* tryReceive: the set of states it can end in, one per result of curl_ws_recv
\* (and of the curl_ws_send of an automatic pong).
tryReceive(w) ==
    IF w.closed THEN {[w EXCEPT !.ret = "null"]}
    ELSE UNION {tryReceiveAfterRead([w EXCEPT !.frame = res,
                                              !.inbox = NoFrame,
                                              !.calls = @ \cup {"curl_ws_recv"}], res) :
                    res \in RecvResults(w)}

\* if (this.pollTimer) { clearTimeout(this.pollTimer); this.pollTimer = null; }
clearPollTimer(w) ==
    IF w.pollTimer # 0
    THEN [w EXCEPT !.timers = @ \ {w.pollTimer}, !.pollTimer = 0]
    ELSE w

\* poll of recv() call r after tryReceive.
pollAfterReceive(a, r) ==
    IF a.ret = "message"
    THEN [clearPollTimer(a) EXCEPT !.recv[r] = "idle", !.ret = "resolved"]
    ELSE IF a.ret = "null"
    THEN [a EXCEPT !.pollTimer = r, !.timers = @ \cup {r}, !.ret = "polling"]
    ELSE [clearPollTimer(a) EXCEPT !.recv[r] = "idle", !.ret = "rejected"]

\* The closure poll of recv() call r; expired is the result of its timeout test.
poll(w, r, expired) ==
    IF expired
    THEN {[clearPollTimer(w) EXCEPT !.recv[r] = "idle", !.ret = "rejected",
                                    !.err = WebSocketError("Receive timeout", 0)]}
    ELSE IF w.closed
    THEN {[clearPollTimer(w) EXCEPT !.recv[r] = "idle", !.ret = "rejected",
                                    !.err = WebSocketClosed(closeCodeOr(w, AbnormalClosure),
                                                            closeReasonOr(w, ConnectionClosedText))]}
    ELSE {pollAfterReceive(a, r) : a \in tryReceive(w)}

\* A timeout test that never succeeds.
Expiry_never(w, r) == FALSE

\* The timeout test of a poll: Date.now() - startTime >= timeoutMs.
Expiry(w, r) == w.recv[r] = "pollingExpired"

\* The timeouts callers pass to recv(): none, a positive one, and 0.
Timeouts == {"none", "later", "now"}

\* recv(timeout) as call r; the message queue is never filled, so it polls.
recv(w, r, timeout) ==
    IF w.closed
    THEN {[w EXCEPT !.ret = "rejected",
                    !.err = WebSocketClosed(closeCodeOr(w, AbnormalClosure),
                                            closeReasonOr(w, ConnectionClosedText))]}
    ELSE UNION {poll(a, r, Expiry(a, r)) :
                    a \in {[w EXCEPT !.recv[r] = CASE timeout = "none" -> "polling"
                                                    [] timeout = "later" -> "pollingTimed"
                                                    [] timeout = "now" -> "pollingExpired"]}}

\* The close frame payload close(code, reason) builds.
closePayload(code, reason) ==
    <<(code \div 256) % 256, code % 256>> \o fromStringUtf8(reason)

\* close() without the try/catch around its sendRaw.
closeStart_propagate(w, k, code, reason) ==
    IF w.closed THEN {[w EXCEPT !.ret = "noop"]}
    ELSE {IF a.ret = "ok"
          THEN [a EXCEPT !.ret = "awaiting",
                         !.closing[k] = [active |-> TRUE, code |-> code, reason |-> reason,
                                         sent |-> TRUE]]
          ELSE a : a \in sendRaw(w, closePayload(code, reason), CURLWS_CLOSE)}

\* close(code, reason) as call k, up to its await of sendRaw.
closeStart(w, k, code, reason) ==
    IF w.closed THEN {[w EXCEPT !.ret = "noop"]}
    ELSE {[a EXCEPT !.ret = "awaiting", !.err = NoError,
                    !.closing[k] = [active |-> TRUE, code |-> code, reason |-> reason,
                                    sent |-> a.ret = "ok"]] :
              a \in sendRaw(w, closePayload(code, reason), CURLWS_CLOSE)}

\* close() call k after its await.
closeFinish(w, k) ==
    LET a == [w EXCEPT !.closeEvent = CloseEvent(w.closing[k].code, w.closing[k].reason),
                       !.closed = TRUE,
                       !.connected = FALSE]
        b == clearPollTimer(a)
    IN  [b EXCEPT !.curl = cleanup(@), !.closing[k] = NotClosing, !.ret = "closed"]

\* connect whose performConnect does not release the handle on failure.
connect_noCleanup(w, addr, setCode, performCode) ==
    LET created == [w.curl EXCEPT !.handle = addr, !.calls = {"curl_easy_init"}]
        configured == setOpt(created, setCode)
    IN  IF configured.ret # "ok"
        THEN [w EXCEPT !.curl = configured, !.phase = "configFailed", !.ret = "throw",
                       !.err = [kind |-> "CurlError", code |-> setCode, reason |-> <<>>,
                                text |-> "setOpt"]]
        ELSE LET performed == easyPerform(configured, performCode)
             IN  IF performed.ret = "ok"
                 THEN [w EXCEPT !.curl = performed, !.connected = TRUE,
                                !.phase = "connected", !.ret = "session"]
                 ELSE [w EXCEPT !.curl = performed, !.closed = TRUE,
                                !.phase = "connectFailed", !.ret = "rejected",
                                !.err = WebSocketError("Failed to connect", performCode)]

\* AsyncWebSocket.connect: the constructor (setCode: the status of its setOpt
\* calls) and performConnect (performCode: the status of curl_easy_perform).
connect(w, addr, setCode, performCode) ==
    LET created == [w.curl EXCEPT !.handle = addr, !.calls = {"curl_easy_init"}]
        configured == setOpt(created, setCode)
    IN  IF configured.ret # "ok"
        THEN [w EXCEPT !.curl = configured, !.phase = "configFailed", !.ret = "throw",
                       !.err = [kind |-> "CurlError", code |-> setCode, reason |-> <<>>,
                                text |-> "setOpt"]]
        ELSE LET performed == easyPerform(configured, performCode)
             IN  IF performed.ret = "ok"
                 THEN [w EXCEPT !.curl = performed, !.connected = TRUE,
                                !.phase = "connected", !.ret = "session"]
                 ELSE [w EXCEPT !.curl = cleanup(performed), !.closed = TRUE,
                                !.phase = "connectFailed", !.ret = "rejected",
                                !.err = WebSocketError("Failed to connect", performCode)]

\* ------------------------------------------- shared and dedicated schedulers
\* new CurlMulti(): the instance takes the lowest id not in use.
newCurlMulti(ms) == CHOOSE i \in MultiIds : ~ms[i].created /\ \A q \in 1..(i - 1) : ms[q].created

CanCreate == \E i \in MultiIds : ~multis[i].created

\* getSharedMulti(): the module variable, the instances and the one returned.
getSharedMulti(shared, ms) ==
    IF shared = 0 \/ ms[shared].closed
    THEN LET n == newCurlMulti(ms)
         IN  [shared |-> n, multis |-> [ms EXCEPT ![n] = NewMulti], ret |-> n]
    ELSE [shared |-> shared, multis |-> ms, ret |-> shared]

\* getSharedMulti() can run: it needs no new instance, or one can be made.
CanGetShared == CanCreate \/ (sharedMulti # 0 /\ ~multis[sharedMulti].closed)

\* Instance i after a handler left it as s.
InstallMulti(i, s, op) ==
    /\ multis' = [multis EXCEPT ![i] = [s EXCEPT !.ret = "none", !.calls = {},
                                                 !.loop = "none", !.running = -1,
                                                 !.fault = 0, !.settled = <<>>]]
    /\ sharedLast' = [op |-> op, id |-> i, ret |-> s.ret, settled |-> s.settled]

\* ----------------------------------------------------------- WebSocket actions
InstallSession(w, op, id) ==
    /\ wsPhase' = w.phase
    /\ wsConnected' = w.connected
    /\ wsClosed' = w.closed
    /\ wsCloseEvent' = w.closeEvent
    /\ wsRecv' = w.recv
    /\ wsTimers' = w.timers
    /\ wsPollTimer' = w.pollTimer
    /\ wsClosing' = w.closing
    /\ wsInbox' = w.inbox
    /\ wsMulti' = w.multi
    /\ InstallCurl(WsCurl, w.curl)
    /\ wsLast' = [op |-> op, id |-> id, ret |-> w.ret, err |-> w.err, msg |-> w.msg,
                  frame |-> w.frame, sends |-> w.sends, calls |-> w.calls \cup w.curl.calls]
    /\ UNCHANGED <<schedulerVars, lastOp, sessionVars, roundTripVars, pureVars>>

\* A handler called by the caller, not by the async iterator.
InstallWs(w, op, id) == InstallSession(w, op, id) /\ UNCHANGED <<wsIter, sharedVars>>

\* AsyncWebSocket.connect(); its constructor takes the shared scheduler.
WsConnect ==
    /\ wsPhase = "none"
    /\ CanGetShared
    /\ LET g == getSharedMulti(sharedMulti, multis)
       IN  /\ sharedMulti' = g.shared
           /\ multis' = g.multis
           /\ \E setCode \in ResultCodes, performCode \in ResultCodes :
                  InstallSession(connect([WsCur EXCEPT !.multi = g.ret], WsCurl, setCode,
                                         performCode), "connect", 0)
    /\ UNCHANGED <<wsIter, sharedClosing, sess, sharedLast>>

\* A caller calls recv(), with or without a timeout; the call takes the lowest
\* id not in use.
WsRecv(r) ==
    /\ wsPhase = "connected"
    /\ wsRecv[r] = "idle"
    /\ \A q \in 1..(r - 1) : wsRecv[q] # "idle"
    /\ \E timeout \in Timeouts : \E w \in recv(WsCur, r, timeout) : InstallWs(w, "recv", r)

\* A continuation of close() is waiting to run.
WsMicrotaskQueued == \E k \in CloseIds : wsClosing[k].active

\* The timeout of recv() call r fires and its poll runs; timers fire only when
\* the microtask queue is empty.
WsPollTick(r) ==
    /\ r \in wsTimers
    /\ ~WsMicrotaskQueued
    /\ \E w \in poll([WsCur EXCEPT !.timers = @ \ {r}], r, Expiry(WsCur, r)) :
           InstallWs(w, "poll", r)

\* Time passes: the timeout of recv() call r elapses.
WsDeadline(r) ==
    /\ wsRecv[r] = "pollingTimed"
    /\ wsRecv' = [wsRecv EXCEPT ![r] = "pollingExpired"]
    /\ wsLast' = [NoWsOp EXCEPT !.op = "clock"]
    /\ UNCHANGED <<schedulerVars, lastOp, curlHandle, curlVars, sessionVars, wsPhase,
                   wsConnected, wsClosed, wsCloseEvent, wsTimers, wsPollTimer, wsClosing,
                   wsInbox, wsMulti, wsIter, roundTripVars, libVars>>

\* A caller sends a frame: send/sendBinary (binary), sendStr/sendJson (text)
\* or ping.
WsSend(flags, data) ==
    /\ wsPhase = "connected"
    /\ \E w \in sendRaw(WsCur, data, flags) : InstallWs(w, "send", 0)

\* The arguments callers pass to close(): the defaults, and 1001 with "b".
CloseArgs == {[code |-> NormalClosure, reason |-> <<>>], [code |-> 1001, reason |-> <<98>>]}

\* A caller calls close(); the call takes the lowest id not in use.
WsCloseStart(k) ==
    /\ wsPhase = "connected"
    /\ ~wsClosing[k].active
    /\ \A q \in 1..(k - 1) : wsClosing[q].active
    /\ \E a \in CloseArgs :
        \E w \in closeStart(WsCur, k, a.code, a.reason) : InstallWs(w, "close", k)

\* Mutant of WsOwnMulti: the session owns its scheduler.
WsOwnMulti_owned == TRUE

\* AsyncWebSocket.ownMulti, assigned once, in the constructor.
WsOwnMulti == FALSE

\* close() call k after its await; if (this.ownMulti) await this.multi.close().
WsCloseFinish(k) ==
    /\ wsClosing[k].active
    /\ InstallSession(closeFinish(WsCur, k), "closeFinish", k)
    /\ IF WsOwnMulti
       THEN multis' = [multis EXCEPT ![wsMulti] = [close(@) EXCEPT !.ret = "none"]]
       ELSE UNCHANGED multis
    /\ UNCHANGED <<wsIter, sharedMulti, sharedClosing, sess, sharedLast>>

\* The peer's next frame arrives at the engine.
WsFrameArrives(f) ==
    /\ wsPhase = "connected"
    /\ ~wsClosed
    /\ wsInbox = NoFrame
    /\ wsInbox' = f
    /\ wsLast' = [NoWsOp EXCEPT !.op = "native"]
    /\ UNCHANGED <<schedulerVars, lastOp, curlHandle, curlVars, sessionVars, wsPhase,
                   wsConnected, wsClosed, wsCloseEvent, wsRecv, wsTimers, wsPollTimer,
                   wsClosing, wsMulti, wsIter, roundTripVars, libVars>>

\* No session exists yet.
NoSession ==
    /\ closed = FALSE
    /\ handle = "multi"
    /\ pendingTransfers = EmptyMap
    /\ curlToAddr = EmptyMap
    /\ polling = FALSE
    /\ pollTimer = "null"
    /\ immediates = 0
    /\ curlHandle = [c \in Curls |-> NullHandle]
    /\ registered = {}
    /\ nativeDone = <<>>
    /\ msgQueue = <<>>
    /\ cleanupCalls = 0
    /\ futures = [c \in Curls |-> [outcome |-> NoFuture, settles |-> 0]]
    /\ lastOp = NoOp
    /\ curlSlists = [c \in Curls |-> <<>>]
    /\ easyCleanups = [c \in Curls |-> 0]
    /\ slistFrees = [c \in Curls |-> [l \in Lists |-> 0]]
    /\ reqState = [c \in Curls |-> "new"]
    /\ exitPath = [c \in Curls |-> "none"]
    /\ sessionClosed = FALSE
    /\ ownMulti = FALSE
    /\ wsPhase = "none"
    /\ wsConnected = FALSE
    /\ wsClosed = FALSE
    /\ wsCloseEvent = NoCloseEvent
    /\ wsRecv = [r \in RecvIds |-> "idle"]
    /\ wsTimers = {}
    /\ wsPollTimer = 0
    /\ wsClosing = [k \in CloseIds |-> NotClosing]
    /\ wsInbox = NoFrame
    /\ wsLast = NoWsOp
    /\ wsMulti = 0
    /\ wsIter = NoIteration
    /\ LibIdle

WsInit == NoSession /\ RoundTripIdle

WsNext ==
    \/ WsConnect
    \/ \E r \in RecvIds : WsRecv(r)
    \/ \E r \in RecvIds : WsPollTick(r)
    \/ \E r \in RecvIds : WsDeadline(r)
    \/ \E flags \in {CURLWS_TEXT, CURLWS_BINARY, CURLWS_PING} : WsSend(flags, <<98>>)
    \/ \E k \in CloseIds : WsCloseStart(k)
    \/ \E k \in CloseIds : WsCloseFinish(k)
    \/ \E f \in Frames : WsFrameArrives(f)

WsSpec == WsInit /\ [][WsNext]_vars

\* --------------------------------------------------------- async iteration
\* The generator after its recv() call r returned a promise: it stays at its
\* await while the call polls, yields the message the call resolved with,
\* returns on WebSocketClosed and throws any other error.
asyncIterator(it, w, r) ==
    CASE w.ret = "polling" -> [it EXCEPT !.state = "waiting", !.call = r]
      [] w.ret = "resolved" -> [it EXCEPT !.state = "idle", !.call = 0, !.out = w.msg]
      [] w.ret = "rejected" /\ w.err.kind = "WebSocketClosed" ->
             [it EXCEPT !.state = "done", !.call = 0]
      [] OTHER -> [it EXCEPT !.state = "threw", !.call = 0, !.err = w.err]

\* The consumer asks for the next item: the generator tests its loop condition
\* and calls recv() without a timeout, as the lowest call id not in use.
IterNextItem(r) ==
    /\ wsPhase = "connected"
    /\ wsIter.state = "idle"
    /\ IF wsClosed
       THEN /\ wsIter' = [wsIter EXCEPT !.state = "done"]
            /\ wsLast' = [NoWsOp EXCEPT !.op = "next"]
            /\ UNCHANGED <<schedulerVars, lastOp, curlHandle, curlVars, sessionVars,
                           wsPhase, wsConnected, wsClosed, wsCloseEvent, wsRecv, wsTimers,
                           wsPollTimer, wsClosing, wsInbox, wsMulti, roundTripVars,
                           libVars>>
       ELSE /\ wsRecv[r] = "idle"
            /\ \A q \in 1..(r - 1) : wsRecv[q] # "idle"
            /\ \E w \in recv(WsCur, r, "none") :
                   /\ InstallSession(w, "recv", r)
                   /\ wsIter' = asyncIterator(wsIter, w, r)
                   /\ UNCHANGED sharedVars

\* The poll of the recv() call the generator awaits runs, and the generator
\* resumes if the call settled.
IterPoll ==
    /\ wsIter.state = "waiting"
    /\ wsIter.call \in wsTimers
    /\ ~WsMicrotaskQueued
    /\ \E w \in poll([WsCur EXCEPT !.timers = @ \ {wsIter.call}], wsIter.call,
                      Expiry(WsCur, wsIter.call)) :
           /\ InstallSession(w, "poll", wsIter.call)
           /\ wsIter' = asyncIterator(wsIter, w, wsIter.call)
           /\ UNCHANGED sharedVars

\* A session whose only receiver is a consumer iterating it, while the peer
\* sends frames and the caller may close it.
IterationNext ==
    \/ WsConnect
    \/ \E r \in RecvIds : IterNextItem(r)
    \/ IterPoll
    \/ \E k \in CloseIds : WsCloseStart(k)
    \/ \E k \in CloseIds : WsCloseFinish(k)
    \/ \E f \in Frames : WsFrameArrives(f)

IterationSpec == WsInit /\ [][IterationNext]_vars

\* ----------------------------------------------- scheduler instance actions
\* A caller calls getSharedMulti().
GetSharedMulti ==
    /\ CanGetShared
    /\ LET g == getSharedMulti(sharedMulti, multis)
       IN  /\ sharedMulti' = g.shared
           /\ multis' = g.multis
           /\ sharedLast' = [NoSharedOp EXCEPT !.op = "getSharedMulti", !.id = g.ret,
                                               !.ret = "returned"]
    /\ UNCHANGED <<schedulerVars, lastOp, curlHandle, curlVars, sessionVars, wsVars,
                   roundTripVars, sharedClosing, sess, pureVars>>

\* closeSharedMulti() up to its await of sharedMulti.close().
CloseSharedStart ==
    /\ sharedClosing < NumCloses
    /\ IF sharedMulti # 0
       THEN /\ InstallMulti(sharedMulti, close(multis[sharedMulti]), "closeSharedMulti")
            /\ sharedClosing' = sharedClosing + 1
       ELSE /\ sharedLast' = [NoSharedOp EXCEPT !.op = "closeSharedMulti", !.ret = "noop"]
            /\ UNCHANGED <<multis, sharedClosing>>
    /\ UNCHANGED <<schedulerVars, lastOp, curlHandle, curlVars, sessionVars, wsVars,
                   roundTripVars, sharedMulti, sess, pureVars>>

\* closeSharedMulti() after its await: sharedMulti = null.
CloseSharedFinish ==
    /\ sharedClosing > 0
    /\ sharedMulti' = 0
    /\ sharedClosing' = sharedClosing - 1
    /\ sharedLast' = [NoSharedOp EXCEPT !.op = "closeSharedFinish"]
    /\ UNCHANGED <<schedulerVars, lastOp, curlHandle, curlVars, sessionVars, wsVars,
                   roundTripVars, multis, sess, pureVars>>

\* new Session(options): a dedicated scheduler when connection limits are
\* given, the shared one otherwise.
NewSession(j, dedicated) ==
    /\ sess[j].state = "none"
    /\ IF dedicated
       THEN /\ CanCreate
            /\ LET n == newCurlMulti(multis)
               IN  /\ multis' = [multis EXCEPT ![n] = NewMulti]
                   /\ sess' = [sess EXCEPT ![j] = [state |-> "open", multi |-> n,
                                                   ownMulti |-> TRUE]]
                   /\ sharedLast' = [NoSharedOp EXCEPT !.op = "newSession", !.id = n]
            /\ UNCHANGED sharedMulti
       ELSE /\ CanGetShared
            /\ LET g == getSharedMulti(sharedMulti, multis)
               IN  /\ sharedMulti' = g.shared
                   /\ multis' = g.multis
                   /\ sess' = [sess EXCEPT ![j] = [state |-> "open", multi |-> g.ret,
                                                   ownMulti |-> FALSE]]
                   /\ sharedLast' = [NoSharedOp EXCEPT !.op = "newSession", !.id = g.ret]
    /\ UNCHANGED <<schedulerVars, lastOp, curlHandle, curlVars, sessionVars, wsVars,
                   roundTripVars, sharedClosing, pureVars>>

\* Session j submits its transfer (Curl object j) to its scheduler.
SessionRequest(j) ==
    /\ sess[j].state = "open"
    /\ multis[sess[j].multi].futures[j].outcome.kind = "none"
    /\ \E s \in perform(multis[sess[j].multi], j) :
           InstallMulti(sess[j].multi, s, "request")
    /\ UNCHANGED <<schedulerVars, lastOp, curlHandle, curlVars, sessionVars, wsVars,
                   roundTripVars, sharedMulti, sharedClosing, sess, pureVars>>

\* Mutant of CloseSession: the scheduler is closed whoever owns it.
CloseSession_alwaysClose(j) ==
    /\ sess[j].state = "open"
    /\ sess' = [sess EXCEPT ![j].state = "closed"]
    /\ InstallMulti(sess[j].multi, close(multis[sess[j].multi]), "closeSession")
    /\ UNCHANGED <<schedulerVars, lastOp, curlHandle, curlVars, sessionVars, wsVars,
                   roundTripVars, sharedMulti, sharedClosing, pureVars>>

\* Session.close() of an open Session: only a dedicated scheduler is closed
\* with the Session.
CloseSession(j) ==
    /\ sess[j].state = "open"
    /\ sess' = [sess EXCEPT ![j].state = "closed"]
    /\ IF sess[j].ownMulti
       THEN InstallMulti(sess[j].multi, close(multis[sess[j].multi]), "closeSession")
       ELSE /\ sharedLast' = [NoSharedOp EXCEPT !.op = "closeSession",
                                                !.id = sess[j].multi, !.ret = "closed"]
            /\ UNCHANGED multis
    /\ UNCHANGED <<schedulerVars, lastOp, curlHandle, curlVars, sessionVars, wsVars,
                   roundTripVars, sharedMulti, sharedClosing, pureVars>>

\* The event loop runs the queued pollLoop callback of instance i; the
\* continuation of a closeSharedMulti() runs first.
MultiTimerFire(i) ==
    /\ multis[i].immediates > 0
    /\ sharedClosing = 0
    /\ \E s \in pollLoop([multis[i] EXCEPT !.immediates = @ - 1,
                                           !.pollTimer = IF @ = "live" /\ multis[i].immediates = 1
                                                         THEN "fired" ELSE @]) :
           InstallMulti(i, s, "pollLoop")
    /\ UNCHANGED <<schedulerVars, lastOp, curlHandle, curlVars, sessionVars, wsVars,
                   roundTripVars, sharedMulti, sharedClosing, sess, pureVars>>

\* The holder of the pending transfer of Curl object c on instance i cancels it.
MultiCancel(i, c) ==
    /\ multis[i].futures[c].outcome = Pending
    /\ InstallMulti(i, cancel(multis[i], c), "cancel")
    /\ UNCHANGED <<schedulerVars, lastOp, curlHandle, curlVars, sessionVars, wsVars,
                   roundTripVars, sharedMulti, sharedClosing, sess, pureVars>>

\* A holder of the open instance i closes it.
MultiClose(i) ==
    /\ multis[i].created
    /\ ~multis[i].closed
    /\ InstallMulti(i, close(multis[i]), "close")
    /\ UNCHANGED <<schedulerVars, lastOp, curlHandle, curlVars, sessionVars, wsVars,
                   roundTripVars, sharedMulti, sharedClosing, sess, pureVars>>

SharedNext ==
    \/ GetSharedMulti
    \/ CloseSharedStart
    \/ CloseSharedFinish
    \/ \E j \in Requests, dedicated \in BOOLEAN : NewSession(j, dedicated)
    \/ \E j \in Requests : SessionRequest(j)
    \/ \E j \in Requests : CloseSession(j)
    \/ \E i \in MultiIds : MultiTimerFire(i)
    \/ \E i \in MultiIds, c \in Requests : MultiCancel(i, c)
    \/ \E i \in MultiIds : MultiClose(i)

SharedSpec == WsInit /\ [][SharedNext]_vars

\* ------------------------------------- WebSocket session beside a scheduler
\* A WebSocket session is connected, used and closed while Sessions run
\* transfers on the shared scheduler and the shared scheduler is closed.
WsSharedNext ==
    \/ WsConnect
    \/ WsRecv(1)
    \/ WsPollTick(1)
    \/ WsSend(CURLWS_TEXT, <<98>>)
    \/ \E k \in CloseIds : WsCloseStart(k)
    \/ \E k \in CloseIds : WsCloseFinish(k)
    \/ NewSession(NumRequests, FALSE)
    \/ SessionRequest(NumRequests)
    \/ \E i \in MultiIds : MultiTimerFire(i)
    \/ CloseSharedStart
    \/ CloseSharedFinish

WsSharedSpec == WsInit /\ [][WsSharedNext]_vars

\* ---------------------------------------------------------- callback bridge
\* What the caller's function can return: nothing (undefined or null) or a
\* count.
FnReturns ==
    {[kind |-> k, n |-> 0] : k \in {"undefined", "null"}}
    \cup {[kind |-> "number", n |-> k] : k \in 0..(MaxSize * MaxNmemb)}

\* The native memory behind the data pointer: n bytes, all different.
NativeBytes(n) == [i \in 1..n |-> i]

\* Mutant of wrapWriteCallback: a zero-length invocation is passed on.
wrapWriteCallback_noZeroCheck(size, nmemb, isBuffer, returns) ==
    LET length == size * nmemb
        chunk == IF isBuffer
                 THEN SubSeq(NativeBytes(length + 1), 1, length)
                 ELSE [i \in 1..length |-> NativeBytes(length)[i]]
    IN  [done |-> TRUE, chunks |-> <<chunk>>,
         ret |-> IF returns.kind = "number" THEN returns.n ELSE length]

\* The function wrapWriteCallback registers, invoked by the engine with
\* (data, size, nmemb): the chunks it passes to fn and the count it returns.
\* A Buffer argument may be longer than the data (subarray cuts it); a
\* pointer is decoded as length bytes.
wrapWriteCallback(size, nmemb, isBuffer, returns) ==
    LET length == size * nmemb
    IN  IF length = 0 THEN [done |-> TRUE, chunks |-> <<>>, ret |-> 0]
        ELSE LET chunk == IF isBuffer
                          THEN SubSeq(NativeBytes(length + 1), 1, length)
                          ELSE [i \in 1..length |-> NativeBytes(length)[i]]
             IN  [done |-> TRUE, chunks |-> <<chunk>>,
                  ret |-> IF returns.kind = "number" THEN returns.n ELSE length]

\* The engine invokes the registered callback.
BridgeInvoke ==
    /\ \E size \in 0..MaxSize, nmemb \in 0..MaxNmemb, isBuffer \in BOOLEAN,
          returns \in FnReturns :
           /\ cbArgs' = [size |-> size, nmemb |-> nmemb, isBuffer |-> isBuffer,
                         returns |-> returns]
           /\ cbOut' = wrapWriteCallback(size, nmemb, isBuffer, returns)
    /\ UNCHANGED <<schedulerVars, lastOp, curlHandle, curlVars, sessionVars, wsVars,
                   roundTripVars, sharedVars, headersVars>>

BridgeSpec == WsInit /\ [][BridgeInvoke]_vars

\* ------------------------------------------------------------------ Headers
\* Header names as sequences of code units: "A-", "a-", "B", "b".
HeaderNames == {<<65, 45>>, <<97, 45>>, <<66>>, <<98>>}

HeaderValues == {"text/html", "application/json"}

\* String.prototype.toLowerCase on the ASCII range: A..Z become a..z, every
\* other code unit is kept.
toLowerCase(name) ==
    [i \in 1..Len(name) |-> IF name[i] >= 65 /\ name[i] <= 90 THEN name[i] + 32
                            ELSE name[i]]

\* string | null
Null == [null |-> TRUE, value |-> ""]

Str(v) == [null |-> FALSE, value |-> v]

get(data, name) ==
    LET key == toLowerCase(name)
    IN  IF key \in DOMAIN data /\ Len(data[key]) > 0 THEN Str(data[key][1][2]) ELSE Null

getAll(data, name) ==
    LET key == toLowerCase(name)
    IN  IF key \in DOMAIN data THEN [i \in 1..Len(data[key]) |-> data[key][i][2]]
        ELSE <<>>

\* Mutant of set: the name is stored as given.
set_caseSensitive(data, name, value) == MapSet(data, name, <<(<<name, value>>)>>)

set(data, name, value) == MapSet(data, toLowerCase(name), <<(<<name, value>>)>>)

append(data, name, value) ==
    LET key == toLowerCase(name)
        existing == IF key \in DOMAIN data THEN data[key] ELSE <<>>
    IN  MapSet(data, key, Append(existing, <<name, value>>))

delete(data, name) == MapDelete(data, toLowerCase(name))

\* The number of values stored under the name's key.
Stored(data, name) == Len(getAll(data, name))

HeadersIdle ==
    UNCHANGED <<schedulerVars, lastOp, curlHandle, curlVars, sessionVars, wsVars,
                roundTripVars, sharedVars, bridgeVars>>

HeadersSet(name, value) ==
    /\ hdrData' = set(hdrData, name, value)
    /\ hdrLast' = [op |-> "set", name |-> name, value |-> value,
                   had |-> Stored(hdrData, name), ret |-> "undefined"]
    /\ HeadersIdle

HeadersAppend(name, value) ==
    /\ Stored(hdrData, name) < MaxValues
    /\ hdrData' = append(hdrData, name, value)
    /\ hdrLast' = [op |-> "append", name |-> name, value |-> value,
                   had |-> Stored(hdrData, name), ret |-> "undefined"]
    /\ HeadersIdle

HeadersGet(name) ==
    /\ hdrLast' = [op |-> "get", name |-> name, value |-> "",
                   had |-> Stored(hdrData, name), ret |-> get(hdrData, name)]
    /\ UNCHANGED hdrData
    /\ HeadersIdle

HeadersGetAll(name) ==
    /\ hdrLast' = [op |-> "getAll", name |-> name, value |-> "",
                   had |-> Stored(hdrData, name), ret |-> getAll(hdrData, name)]
    /\ UNCHANGED hdrData
    /\ HeadersIdle

HeadersDelete(name) ==
    /\ hdrData' = delete(hdrData, name)
    /\ hdrLast' = [op |-> "delete", name |-> name, value |-> "",
                   had |-> Stored(hdrData, name),
                   ret |-> toLowerCase(name) \in DOMAIN hdrData]
    /\ HeadersIdle

HeadersNext ==
    \/ \E name \in HeaderNames, value \in HeaderValues : HeadersSet(name, value)
    \/ \E name \in HeaderNames, value \in HeaderValues : HeadersAppend(name, value)
    \/ \E name \in HeaderNames : HeadersGet(name)
    \/ \E name \in HeaderNames : HeadersGetAll(name)
    \/ \E name \in HeaderNames : HeadersDelete(name)

HeadersSpec == WsInit /\ [][HeadersNext]_vars

\* ------------------------------------------------- close frame round trip
\* The code points reasons are made of: "b", U+00E9 (two bytes in UTF-8) and
\* U+20AC (three bytes).
ReasonChars == {98, 233, 8364}

RECURSIVE SeqsUpTo(_, _)
SeqsUpTo(S, n) ==
    IF n = 0 THEN {<<>>}
    ELSE LET shorter == SeqsUpTo(S, n - 1)
         IN  shorter \cup {Append(q, x) : q \in {y \in shorter : Len(y) = n - 1}, x \in S}

\* The reasons passed to close(): every string of ReasonChars up to MaxReason,
\* and "bye".
Reasons == SeqsUpTo(ReasonChars, MaxReason) \cup {<<98, 121, 101>>}

\* The close codes passed to close(): the ends of the 16-bit range, 1000, 1001.
CloseCodes == {0, NormalClosure, 1001, 65535}

\* close(code, reason) builds its payload.
RtEncode ==
    /\ rtStep = "args"
    /\ rtPayload' = closePayload(rtArgs.code, rtArgs.reason)
    /\ rtStep' = "encoded"
    /\ UNCHANGED <<schedulerVars, lastOp, curlHandle, curlVars, sessionVars, wsVars,
                   rtArgs, rtEvent, libVars>>

\* The session that receives the frame decodes its payload.
RtDecode ==
    /\ rtStep = "encoded"
    /\ rtEvent' = handleCloseFrame(WsCur, rtPayload).closeEvent
    /\ rtStep' = "decoded"
    /\ UNCHANGED <<schedulerVars, lastOp, curlHandle, curlVars, sessionVars, wsVars,
                   rtArgs, rtPayload, libVars>>

\* A caller is about to call close(code, reason).
RoundTripInit ==
    /\ NoSession
    /\ rtStep = "args"
    /\ rtArgs \in [code : CloseCodes, reason : Reasons]
    /\ rtPayload = <<>>
    /\ rtEvent = NoCloseEvent

RoundTripNext == RtEncode \/ RtDecode

RoundTripSpec == RoundTripInit /\ [][RoundTripNext]_vars

\* ------------------------------------------------------------------- claims
\* Curl object c has a Pending Transfer Record.
HasRecord(c) == \E k \in DOMAIN pendingTransfers : pendingTransfers[k].curl = c

\* The engine has finished the transfer of c and not yet reported it.
HasDone(c) == \E i \in 1..Len(nativeDone) : nativeDone[i].easyHandle = curlHandle[c]

DoneResult(c) ==
    nativeDone[CHOOSE i \in 1..Len(nativeDone) : nativeDone[i].easyHandle = curlHandle[c]].result

\* What a completion with status code must do to the future.
ExpectedOutcome(code) ==
    IF code = CURLE_OK THEN [kind |-> "resolved", code |-> code]
    ELSE [kind |-> "TransferFailed", code |-> code]

\* c's transfer is pending when the step's poll-loop iteration starts: it was
\* pending before the step, or the step's perform() accepted it.
InLoop(c) ==
    \/ futures[c].outcome = Pending
    \/ futures[c].outcome = NoFuture /\ futures'[c].outcome # NoFuture

\* The error a context fault hands to failAllPending.
FaultError(op) ==
    IF op.loop = "perform_fault" THEN [kind |-> "PerformFailed", code |-> op.fault]
    ELSE [kind |-> "PollFailed", code |-> op.fault]

SettledKinds == {"resolved", "TransferFailed", "Cancelled", "Closed", "PerformFailed", "PollFailed"}

\* C1: resolve/reject is called at most once on the promise of every accepted
\* transfer, over every interleaving of poll iterations, cancels, faults and
\* close; a promise is settled exactly when that one call has been made.
C1_AtMostOneResolution ==
    \A c \in Curls :
        /\ futures[c].settles <= 1
        /\ futures[c].settles = 1 <=> futures[c].outcome.kind \in SettledKinds
        /\ futures[c].settles = 0 <=> futures[c].outcome.kind \in {"none", "pending"}

\* C1 witness: close ran after one transfer had completed and another had been
\* cancelled, and rejected only the third.
C1_Witness ==
    /\ lastOp.op = "close" /\ lastOp.ret = "closed"
    /\ \E a, b, c \in Curls :
        /\ futures[a].outcome.kind = "resolved"
        /\ futures[b].outcome = Cancelled
        /\ futures[c].outcome = SchedulerClosed
        /\ lastOp.settled = <<c>>

\* C2: perform() of a Curl object that has a Pending Transfer Record is
\* rejected with the add-handle (duplicate) error, and the record, its
\* promise, the rest of the pending set and the native registrations are
\* left as they were.
C2_DuplicateRejected ==
    [][\A c \in Curls :
        (lastOp'.op = "perform" /\ lastOp'.curl = c /\ HasRecord(c)) =>
            /\ lastOp'.ret = "AddHandleFailed"
            /\ lastOp'.fault # CURLM_OK
            /\ lastOp'.settled = <<>>
            /\ UNCHANGED <<closed, handle, pendingTransfers, curlToAddr, polling,
                           pollTimer, immediates, curlHandle, registered, nativeDone,
                           msgQueue, cleanupCalls, futures>>]_vars

\* C2 witness: a second perform() of a pending Curl object has just been
\* rejected while a sibling is pending too.
C2_Witness ==
    /\ lastOp.op = "perform" /\ lastOp.ret = "AddHandleFailed"
    /\ HasRecord(lastOp.curl)
    /\ futures[lastOp.curl].outcome = Pending
    /\ Cardinality(DOMAIN pendingTransfers) >= 2

\* C3: every record is stored under its own handle's address, no two records
\* share a handle, a Curl object or a promise, curlToAddr names exactly the
\* records, and the handles registered with the native context are exactly
\* the handles that have a record.
C3_OneRecordPerHandle ==
    /\ \A k \in DOMAIN pendingTransfers :
        /\ pendingTransfers[k].handleAddr = k
        /\ getHandleAddress(pendingTransfers[k].handle) = k
        /\ pendingTransfers[k].curl \in DOMAIN curlToAddr
        /\ curlToAddr[pendingTransfers[k].curl] = k
        /\ futures[pendingTransfers[k].fut].outcome = Pending
    /\ \A k1, k2 \in DOMAIN pendingTransfers :
        k1 # k2 => /\ pendingTransfers[k1].handle # pendingTransfers[k2].handle
                   /\ pendingTransfers[k1].curl # pendingTransfers[k2].curl
                   /\ pendingTransfers[k1].fut # pendingTransfers[k2].fut
    /\ Cardinality(DOMAIN curlToAddr) = Cardinality(DOMAIN pendingTransfers)
    /\ registered = {pendingTransfers[k].handle : k \in DOMAIN pendingTransfers}

\* C3 witness: one of three records has just been cancelled; two remain.
C3_Witness ==
    /\ lastOp.op = "cancel" /\ lastOp.ret = "true"
    /\ Cardinality(DOMAIN pendingTransfers) = 2
    /\ Cardinality(registered) = 2

\* C4: once the scheduler is closed, perform() fails with the closed error,
\* makes no native call, creates no record or promise and does not start the
\* poll loop.
C4_SubmitAfterClose ==
    [][(closed /\ lastOp'.op = "perform") =>
            /\ lastOp'.ret = "AlreadyClosed"
            /\ lastOp'.calls = {}
            /\ lastOp'.loop = "none"
            /\ UNCHANGED <<closed, handle, pendingTransfers, curlToAddr, polling,
                           pollTimer, immediates, curlHandle, registered, nativeDone,
                           msgQueue, cleanupCalls, futures>>]_vars

\* C4 witness: perform() has just been refused by a closed scheduler.
C4_Witness ==
    /\ closed
    /\ lastOp.op = "perform" /\ lastOp.ret = "AlreadyClosed"

\* C5: when curl_multi_perform or curl_multi_poll returns a fatal status,
\* every transfer pending at that point is rejected with the one error of
\* that fault, every handle is unregistered and the pending set is empty; a
\* transfer completed earlier in the same iteration keeps its own result.
C5_BroadcastOnFault ==
    [][lastOp'.loop \in {"perform_fault", "poll_fault"} =>
            /\ lastOp'.fault \in FatalMultiCodes
            /\ pendingTransfers' = EmptyMap
            /\ curlToAddr' = EmptyMap
            /\ registered' = {}
            /\ polling' = FALSE
            /\ \E c \in Curls : futures'[c].outcome = FaultError(lastOp')
            /\ \A c \in Curls :
                IF InLoop(c) /\ ~(lastOp'.loop = "poll_fault" /\ HasDone(c))
                THEN futures'[c] = [outcome |-> FaultError(lastOp'), settles |-> 1]
                ELSE IF InLoop(c)
                THEN futures'[c] = [outcome |-> ExpectedOutcome(DoneResult(c)), settles |-> 1]
                ELSE futures'[c] = futures[c]]_vars

\* C5 witness: a fault of curl_multi_perform has just rejected three pending
\* transfers.
C5_Witness ==
    /\ lastOp.loop = "perform_fault"
    /\ Len(lastOp.settled) = 3
    /\ \A c \in {lastOp.settled[i] : i \in 1..Len(lastOp.settled)} :
        futures[c].outcome = FaultError(lastOp)

\* C6: in a poll iteration without a fault, each transfer the engine reports
\* as finished is resolved (status 0) or rejected with a transfer error
\* carrying its status, and every other pending transfer stays pending,
\* with its record and its native registration.
C6_PerTransferFailuresLocal ==
    [][lastOp'.loop \in {"rescheduled", "stopped"} =>
            \A c \in Curls :
                IF InLoop(c) /\ HasDone(c)
                THEN /\ futures'[c] = [outcome |-> ExpectedOutcome(DoneResult(c)), settles |-> 1]
                     /\ curlHandle[c] \notin registered'
                ELSE IF InLoop(c)
                THEN /\ futures'[c].outcome = Pending
                     /\ curlHandle[c] \in DOMAIN pendingTransfers'
                     /\ curlHandle[c] \in registered'
                ELSE futures'[c] = futures[c]]_vars

\* C6 witness: three handles A = 1, B = 2, C = 3 were reported in the order
\* B (status 0), A (non-zero), C (status 0): B and C are resolved, A is rejected.
C6_Witness ==
    /\ lastOp.op = "pollLoop"
    /\ lastOp.settled = <<2, 1, 3>>
    /\ futures[2].outcome = [kind |-> "resolved", code |-> CURLE_OK]
    /\ futures[1].outcome.kind = "TransferFailed" /\ futures[1].outcome.code # CURLE_OK
    /\ futures[3].outcome = [kind |-> "resolved", code |-> CURLE_OK]

\* C7: cancel() of a Curl object without a record returns false, makes no
\* native call and changes nothing; cancel() of one with a record returns
\* true, removes exactly that record, unregisters exactly that handle and
\* rejects exactly that promise with the cancelled error.
C7_CancelIdempotence ==
    [][\A c \in Curls :
        (lastOp'.op = "cancel" /\ lastOp'.curl = c) =>
            IF HasRecord(c)
            THEN /\ lastOp'.ret = "true"
                 /\ pendingTransfers' = [k \in (DOMAIN pendingTransfers) \ {curlHandle[c]}
                                             |-> pendingTransfers[k]]
                 /\ curlToAddr' = [x \in (DOMAIN curlToAddr) \ {c} |-> curlToAddr[x]]
                 /\ registered' = registered \ {curlHandle[c]}
                 /\ futures' = [futures EXCEPT ![c] = [outcome |-> Cancelled, settles |-> 1]]
                 /\ lastOp'.settled = <<c>>
                 /\ UNCHANGED <<closed, handle, polling, pollTimer, immediates, curlHandle,
                                cleanupCalls>>
            ELSE /\ lastOp'.ret = "false"
                 /\ lastOp'.calls = {}
                 /\ lastOp'.settled = <<>>
                 /\ UNCHANGED <<closed, handle, pendingTransfers, curlToAddr, polling,
                                pollTimer, immediates, curlHandle, registered, nativeDone,
                                msgQueue, cleanupCalls, futures>>]_vars

\* C7 witness: a second cancel() of a cancelled transfer has just returned
\* false while a sibling is still pending.
C7_Witness ==
    /\ lastOp.op = "cancel" /\ lastOp.ret = "false"
    /\ futures[lastOp.curl].outcome = Cancelled
    /\ \E c \in Curls : futures[c].outcome = Pending

\* C8: the first close() rejects every pending promise with the
\* scheduler-closed error, empties the pending set, unregisters every handle,
\* leaves no poll iteration queued and releases the native context, once; a
\* later close() makes no native call and changes nothing.
C8_Close ==
    [][lastOp'.op = "close" =>
        IF ~closed
        THEN /\ lastOp'.ret = "closed"
             /\ closed' /\ handle' = "null"
             /\ pendingTransfers' = EmptyMap /\ curlToAddr' = EmptyMap
             /\ registered' = {}
             /\ immediates' = 0
             /\ cleanupCalls = 0 /\ cleanupCalls' = 1
             /\ "curl_multi_cleanup" \in lastOp'.calls
             /\ \A c \in Curls :
                 IF futures[c].outcome = Pending
                 THEN futures'[c] = [outcome |-> SchedulerClosed, settles |-> 1]
                 ELSE futures'[c] = futures[c]
        ELSE /\ lastOp'.ret = "noop"
             /\ lastOp'.calls = {}
             /\ UNCHANGED <<closed, handle, pendingTransfers, curlToAddr, polling,
                            pollTimer, immediates, curlHandle, registered, nativeDone,
                            msgQueue, cleanupCalls, futures>>]_vars

\* C8 witness: a second close() has just returned after the first one
\* rejected two transfers in flight.
C8_Witness ==
    /\ lastOp.op = "close" /\ lastOp.ret = "noop"
    /\ cleanupCalls = 1
    /\ Cardinality({c \in Curls : futures[c].outcome = SchedulerClosed}) >= 2

\* C9: under FairSpec every accepted transfer is eventually settled.
C9_EventuallySettled ==
    \A c \in Curls : (futures[c].outcome = Pending) ~> (futures[c].outcome.kind \in SettledKinds)

\* C9 witness: a queued poll iteration has just resolved a transfer while
\* another one was submitted and is still pending.
C9_Witness ==
    /\ lastOp.op = "pollLoop"
    /\ \E c \in Curls : /\ futures[c].outcome.kind = "resolved"
                        /\ lastOp.settled = <<c>>
    /\ \E c \in Curls : futures[c].outcome = Pending

\* C10: after a poll iteration whose curl_multi_perform reported zero running
\* transfers without a fatal status and whose completion queue was drained,
\* no record is pending, no handle is registered and no message is queued.
C10_DrainExhaustive ==
    (lastOp.loop \in {"rescheduled", "stopped"} /\ lastOp.running = 0) =>
        /\ pendingTransfers = EmptyMap
        /\ curlToAddr = EmptyMap
        /\ registered = {}
        /\ msgQueue = <<>>
        /\ lastOp.loop = "stopped"

\* C10 witness: an iteration that saw zero running transfers has just drained
\* three completions.
C10_Witness ==
    /\ lastOp.loop = "stopped" /\ lastOp.running = 0
    /\ Len(lastOp.settled) = 3
    /\ "curl_multi_info_read" \in lastOp.calls

\* C11: in a poll iteration the promises of the finished transfers are settled
\* in the order of the engine's message queue (the messages already queued,
\* then those curl_multi_perform harvests, in the order the transfers
\* finished), whatever the order of submission; a fault of curl_multi_poll
\* rejects the remaining transfers only after them.
C11_CompletionOrder ==
    [][lastOp'.loop \in {"rescheduled", "stopped", "poll_fault"} =>
        LET queue == msgQueue \o nativeDone
            order == [i \in 1..Len(queue) |->
                         pendingTransfers[getHandleAddress(queue[i].easyHandle)].fut]
        IN  /\ Len(lastOp'.settled) >= Len(queue)
            /\ SubSeq(lastOp'.settled, 1, Len(queue)) = order
            /\ lastOp'.loop # "poll_fault" => lastOp'.settled = order]_vars

\* C11 witness: the transfers finished in the order 3, 1, 2 and one queued
\* iteration has just settled their promises in that order.
C11_Witness ==
    /\ lastOp.op = "pollLoop"
    /\ lastOp.settled = <<3, 1, 2>>
    /\ \A c \in {1, 2, 3} : futures[c].outcome.kind \in {"resolved", "TransferFailed"}

\* C12: at most one pollLoop callback is ever queued, a queued callback
\* implies the polling flag (so the iteration perform() runs itself never
\* coexists with a queued one), and a perform() made while the flag is set
\* runs no iteration and queues none.
C12_NoOverlappingLoops ==
    [][/\ immediates' <= 1
       /\ immediates' > 0 => polling' /\ pollTimer' = "live"
       /\ (polling /\ lastOp'.op = "perform") =>
              /\ lastOp'.loop = "none"
              /\ "curl_multi_perform" \notin lastOp'.calls
              /\ UNCHANGED <<immediates, polling, pollTimer>>]_vars

\* C12 witness: a second transfer has just been accepted while the loop of
\* the first is queued; the one queued callback serves both.
C12_Witness ==
    /\ lastOp.op = "perform" /\ lastOp.ret = "accepted" /\ lastOp.loop = "none"
    /\ polling /\ immediates = 1
    /\ Cardinality(DOMAIN pendingTransfers) >= 2

\* C13: once no record remains the loop stops within one further iteration
\* and the polling flag returns to false: with no record and no callback
\* queued the flag is false, an iteration that starts with no record queues
\* no callback and clears the flag, and a perform() accepted while the flag
\* is false runs an iteration again.
C13_LoopTerminates ==
    [][/\ (MapSize(pendingTransfers') = 0 /\ immediates' = 0) => ~polling'
       /\ (lastOp'.op = "pollLoop" /\ MapSize(pendingTransfers) = 0) =>
              lastOp'.loop = "idle" /\ immediates' = 0 /\ ~polling'
       /\ (lastOp'.op = "perform" /\ lastOp'.ret = "accepted" /\ ~polling) =>
              lastOp'.loop \notin {"none", "idle"}]_vars

\* C14: in Session.request a record is always keyed by the address of the
\* live handle of its own Curl object and every registered handle is live,
\* and the step that releases a handle finds it unregistered and without a
\* record: completion, failure, cancel, fault and close all unregister and
\* delete before the request's finally runs.
C14_UnregisterBeforeRelease ==
    [][/\ \A k \in DOMAIN pendingTransfers' :
            /\ pendingTransfers'[k].handle # NullHandle
            /\ curlHandle'[pendingTransfers'[k].curl] = pendingTransfers'[k].handle
            /\ getHandleAddress(pendingTransfers'[k].handle) = k
       /\ \A h \in registered' : \E c \in Requests : curlHandle'[c] = h
       /\ \A c \in Requests :
            (curlHandle[c] # NullHandle /\ curlHandle'[c] = NullHandle) =>
                /\ curlHandle[c] \notin registered
                /\ getHandleAddress(curlHandle[c]) \notin DOMAIN pendingTransfers
                /\ c \notin DOMAIN curlToAddr]_vars

\* C14 witness: the second request has just released its handle after its
\* transfer completed, while the first request's handle is still registered.
C14_Witness ==
    /\ lastOp.op = "resume" /\ lastOp.curl = 2
    /\ "curl_easy_cleanup" \in lastOp.calls
    /\ exitPath[2] \in {"resolved", "TransferFailed"}
    /\ reqState[1] = "awaiting" /\ futures[1].outcome = Pending
    /\ curlHandle[1] \in registered

\* C15: the handle of every request is released exactly once on every way
\* out of Session.request: no Curl object sees a second curl_easy_cleanup, a
\* request that has left (option refused, submission rejected, transfer
\* resolved or failed, cancelled, context fault, scheduler closed) has had
\* exactly one and holds no handle, and a request still waiting has had none.
C15_ReleasedExactlyOnce ==
    \A c \in Requests :
        /\ easyCleanups[c] <= 1
        /\ reqState[c] = "done" =>
               /\ easyCleanups[c] = 1
               /\ curlHandle[c] = NullHandle
               /\ exitPath[c] \in {"ConfigError", "AlreadyClosed", "AddHandleFailed", "resolved",
                                   "TransferFailed", "Cancelled", "PerformFailed",
                                   "PollFailed", "Closed"}
        /\ reqState[c] = "awaiting" => easyCleanups[c] = 0 /\ curlHandle[c] # NullHandle
        /\ reqState[c] = "new" => easyCleanups[c] = 0 /\ curlHandle[c] = NullHandle

\* C15 witness: one request has left through a cancellation and the other
\* through a submission refused by the closed scheduler, each with one release.
C15_Witness ==
    /\ reqState[1] = "done" /\ exitPath[1] = "Cancelled" /\ easyCleanups[1] = 1
    /\ reqState[2] = "done" /\ exitPath[2] = "AlreadyClosed" /\ easyCleanups[2] = 1
    /\ lastOp.op = "resume" /\ lastOp.calls = {"curl_easy_cleanup"}

C17_HandleReleasedOnEveryPath ==
    /\ easyCleanups[WsCurl] <= 1
    /\ wsPhase \in {"configFailed", "connectFailed"} => easyCleanups[WsCurl] = 1
    /\ wsLast.op = "closeFinish" => easyCleanups[WsCurl] = 1
    /\ (wsLast.op = "close" /\ wsLast.ret = "noop") => easyCleanups[WsCurl] = 1

\* C17, the remote-close path alone: a close() call on a session that a close
\* frame has closed returns with the handle still not released.
C17_RemoteCloseReleases ==
    (wsLast.op = "close" /\ wsLast.ret = "noop" /\ wsPhase = "connected")
        => easyCleanups[WsCurl] = 1

\* The last step was a receive (recv() or one of its poll ticks) whose native
\* read returned a frame flagged bit.
ReadFrame(bit) ==
    /\ wsLast.op \in {"recv", "poll"}
    /\ wsLast.frame.code = CURLE_OK
    /\ wsLast.frame.flags # NoFrameInfo
    /\ HasFlag(wsLast.frame.flags, bit)

\* C18: a frame flagged ping that the receive path reads is never the result
\* of receive(): the call returns no message and keeps waiting.
C18_PingNotSurfaced ==
    ReadFrame(CURLWS_PING) => (wsLast.ret = "polling" /\ wsLast.msg = NoMessage)

\* The pong frames the last step sent through curl_ws_send.
PongsSent == SelectSeq(wsLast.sends, LAMBDA s : s.flags = CURLWS_PONG)

\* C19: every ping frame the receive path reads causes exactly one native send
\* of a frame flagged pong with the payload of the ping, and a failure of that
\* send (a non-success code, a partial write) neither fails the receive call
\* nor changes the session state.
C19_AutomaticPong ==
    [][(ReadFrame(CURLWS_PING))' =>
          /\ Len(PongsSent') = 1
          /\ PongsSent'[1].data = wsLast'.frame.data
          /\ wsLast'.err = NoError
          /\ wsLast'.ret # "rejected"
          /\ <<wsPhase, wsConnected, wsClosed, wsCloseEvent>>' =
                 <<wsPhase, wsConnected, wsClosed, wsCloseEvent>>]_vars

\* C19 for pings that carry a payload: one pong with the same payload, whose
\* failure is swallowed.
C19_PongForNonEmptyPing ==
    [][(ReadFrame(CURLWS_PING) /\ wsLast.frame.received > 0)' =>
          /\ Len(PongsSent') = 1
          /\ PongsSent'[1].data = wsLast'.frame.data
          /\ wsLast'.err = NoError
          /\ wsLast'.ret # "rejected"
          /\ <<wsPhase, wsConnected, wsClosed, wsCloseEvent>>' =
                 <<wsPhase, wsConnected, wsClosed, wsCloseEvent>>]_vars

\* What C20 requires of a step that read a close frame.
CloseFrameHandled ==
    /\ wsCloseEvent'.set
    /\ wsClosed'
    /\ ~wsConnected'
    /\ wsLast'.ret = "rejected"
    /\ wsLast'.msg = NoMessage
    /\ wsLast'.err = WebSocketClosed(wsCloseEvent'.code, wsCloseEvent'.reason)

\* C20: every close frame the receive path reads, whatever the length of its
\* payload, updates the Close Event, closes the session (closed = true,
\* connected = false) and makes the receive call fail with WebSocketClosed
\* carrying the code and the reason of the Close Event.
C20_CloseFrameClosesSession ==
    [][(ReadFrame(CURLWS_CLOSE))' => CloseFrameHandled]_vars

\* C20 for close frames that carry a payload and do not decode to code 0.
C20_NonEmptyCloseFrame ==
    [][(ReadFrame(CURLWS_CLOSE) /\ wsLast.frame.received > 0 /\ wsCloseEvent.code # 0)'
           => CloseFrameHandled]_vars

\* C20 for close frames that carry a payload, code 0 included.
C20_CloseFrameWithPayload ==
    [][(ReadFrame(CURLWS_CLOSE) /\ wsLast.frame.received > 0)' => CloseFrameHandled]_vars

\* C21: a close frame payload made of a 2-byte big-endian code followed by a
\* UTF-8 reason is decoded into a Close Event with exactly that code and
\* reason and wasClean = true, and it is the layout close(code, reason)
\* encodes: what close() builds, handleCloseFrame decodes to its arguments.
C21_CloseFrameRoundTrip ==
    /\ rtStep \in {"encoded", "decoded"} =>
           /\ Len(rtPayload) = 2 + Len(fromStringUtf8(rtArgs.reason))
           /\ rtPayload[1] * 256 + rtPayload[2] = rtArgs.code
           /\ SubSeq(rtPayload, 3, Len(rtPayload)) = fromStringUtf8(rtArgs.reason)
    /\ rtStep = "decoded" =>
           rtEvent = [set |-> TRUE, code |-> rtArgs.code, reason |-> rtArgs.reason,
                      wasClean |-> TRUE]

\* Code 1001 with reason "bye" went through close() and handleCloseFrame, and
\* so did a reason with a character of more than one byte.
C21_Witness ==
    /\ rtStep = "decoded"
    /\ rtArgs = [code |-> 1001, reason |-> <<98, 121, 101>>]
    /\ rtPayload = <<3, 233, 98, 121, 101>>
    /\ rtEvent = [set |-> TRUE, code |-> 1001, reason |-> <<98, 121, 101>>, wasClean |-> TRUE]

\* C22: a recv() call that is polling always settles (on a message, on its
\* timeout, or when the session becomes closed). A call settles only inside
\* its own poll, so a call in flight always has its next poll scheduled; in
\* particular after a close() it is not left without one.
C22_InFlightReceiveSettles ==
    \A r \in RecvIds : wsRecv[r] # "idle" => r \in wsTimers

\* C22, the close() case: when close() runs while a recv() call is polling,
\* the call is not left without a poll that rejects it with WebSocketClosed.
C22_CloseRejectsPollingReceive ==
    [][\A r \in RecvIds :
          (wsLast'.op \in {"close", "closeFinish"} /\ wsRecv[r] # "idle" /\ r \in wsTimers)
              => (wsRecv'[r] = "idle" \/ r \in wsTimers')]_vars

\* C23: with a timeout, while the native read reports nothing available the
\* call keeps polling and never resolves; the first poll that runs once the
\* timeout has elapsed rejects it with the receive-timeout error without
\* reading, leaves the session as it was and leaves no poll timer scheduled.
C23_ReceiveTimeout ==
    [][\A r \in RecvIds :
          /\ (wsLast'.op = "poll" /\ wsLast'.id = r /\ wsRecv[r] = "pollingExpired") =>
                 /\ wsLast'.ret = "rejected"
                 /\ wsLast'.err = WebSocketError("Receive timeout", 0)
                 /\ wsLast'.msg = NoMessage
                 /\ "curl_ws_recv" \notin wsLast'.calls
                 /\ wsRecv'[r] = "idle"
                 /\ wsPollTimer' = 0
                 /\ r \notin wsTimers'
                 /\ <<wsPhase, wsConnected, wsClosed, wsCloseEvent>>' =
                        <<wsPhase, wsConnected, wsClosed, wsCloseEvent>>
          /\ (wsLast'.op \in {"recv", "poll"} /\ wsLast'.id = r
                  /\ wsLast'.frame.code = CURLE_AGAIN) =>
                 /\ wsLast'.ret = "polling"
                 /\ wsLast'.msg = NoMessage
                 /\ wsRecv'[r] \in {"polling", "pollingTimed"}
                 /\ wsPollTimer' = r
                 /\ r \in wsTimers'
                 /\ <<wsPhase, wsConnected, wsClosed, wsCloseEvent>>' =
                        <<wsPhase, wsConnected, wsClosed, wsCloseEvent>>]_vars

\* A recv(timeout) on an open session was rejected by a poll tick with the
\* receive-timeout error, and nothing is scheduled any more.
C23_Witness ==
    /\ wsLast.op = "poll"
    /\ wsLast.err = WebSocketError("Receive timeout", 0)
    /\ wsConnected /\ ~wsClosed
    /\ wsRecv = [r \in RecvIds |-> "idle"]
    /\ wsTimers = {} /\ wsPollTimer = 0

\* C24: over any sequence of close() calls and received close frames, two
\* close() calls that overlap included, the Close Event is written once and
\* never overwritten, at most one close frame is sent, and the handle is
\* released once.
C24_CloseIdempotent ==
    [][/\ wsCloseEvent.set => wsCloseEvent' = wsCloseEvent
       /\ (wsLast'.op = "close" /\ wsLast'.sends # <<>>
               /\ wsLast'.sends[1].code = CURLE_OK
               /\ wsLast'.sends[1].sent = Len(wsLast'.sends[1].data)) =>
              \A k \in CloseIds : ~(wsClosing[k].active /\ wsClosing[k].sent)
       /\ easyCleanups'[WsCurl] <= 1]_vars

\* C24, the release alone: whatever the close() calls and close frames, the
\* handle is released at most once.
C24_ReleasedAtMostOnce == easyCleanups[WsCurl] <= 1

\* C24 for close() calls that do not overlap and no close frame read while a
\* close() is at its await: the first writing of the Close Event is the last.
C24_SequentialCloses ==
    [][(wsCloseEvent.set /\ ~WsMicrotaskQueued) => wsCloseEvent' = wsCloseEvent]_vars

\* C25: once the session is closed, by close() or by a received close frame,
\* every send, sendStr, sendJson, ping and recv call is rejected with
\* WebSocketClosed and makes no native send or receive call.
C25_ClosedSessionRejects ==
    [][(wsClosed /\ wsLast'.op \in {"send", "recv"}) =>
          /\ wsLast'.ret \in {"throw", "rejected"}
          /\ wsLast'.err.kind = "WebSocketClosed"
          /\ wsLast'.msg = NoMessage
          /\ wsLast'.sends = <<>>
          /\ wsLast'.calls = {}
          /\ UNCHANGED <<curlHandle, easyCleanups, wsInbox>>]_vars

\* A send on a session closed by a close frame, whose handle is still held, was
\* rejected with WebSocketClosed.
C25_Witness ==
    /\ wsClosed
    /\ curlHandle[WsCurl] # NullHandle
    /\ wsLast.op = "send"
    /\ wsLast.err.kind = "WebSocketClosed"
    /\ wsLast.calls = {}

\* C26: on an open session a send whose native call returns a non-success
\* code, or a success with fewer bytes sent than requested, is rejected with
\* WebSocketError after exactly one native send call; only a success with all
\* bytes sent resolves.
C26_PartialSendSurfaced ==
    [][(~wsClosed /\ wsLast'.op = "send") =>
          /\ Len(wsLast'.sends) = 1
          /\ LET s == wsLast'.sends[1]
             IN  IF s.code = CURLE_OK /\ s.sent = Len(s.data)
                 THEN wsLast'.ret = "ok" /\ wsLast'.err = NoError
                 ELSE /\ wsLast'.ret = "throw"
                      /\ wsLast'.err.kind = "WebSocketError"]_vars

\* A send on an open session wrote fewer bytes than requested with a success
\* code and was rejected with WebSocketError.
C26_Witness ==
    /\ ~wsClosed
    /\ wsLast.op = "send"
    /\ Len(wsLast.sends) = 1
    /\ wsLast.sends[1].code = CURLE_OK
    /\ wsLast.sends[1].sent < Len(wsLast.sends[1].data)
    /\ wsLast.err.kind = "WebSocketError"

\* C27: on an open session close(code, reason) never throws, whether the
\* native send of the close frame succeeds, fails or is partial, and ends with
\* closed = true, connected = false and the Close Event {code, reason,
\* wasClean: true}.
C27_CallerCloseCompletes ==
    [][\A k \in CloseIds :
          /\ (~wsClosed /\ wsLast'.op = "close" /\ wsLast'.id = k) =>
                 /\ Len(wsLast'.sends) = 1
                 /\ wsLast'.sends[1].flags = CURLWS_CLOSE
                 /\ wsLast'.ret = "awaiting"
                 /\ wsLast'.err = NoError
                 /\ wsClosing'[k].active
          /\ (wsLast'.op = "closeFinish" /\ wsLast'.id = k) =>
                 /\ wsClosed'
                 /\ ~wsConnected'
                 /\ wsCloseEvent' = [set |-> TRUE, code |-> wsClosing[k].code,
                                      reason |-> wsClosing[k].reason, wasClean |-> TRUE]
                 /\ wsLast'.ret = "closed"
                 /\ wsLast'.err = NoError
                 /\ ~wsClosing'[k].active]_vars

\* A close(1001, "b") on an open session has finished.
C27_Witness ==
    /\ wsLast.op = "closeFinish"
    /\ wsLast.ret = "closed"
    /\ wsClosed /\ ~wsConnected
    /\ wsCloseEvent = [set |-> TRUE, code |-> 1001, reason |-> <<98>>, wasClean |-> TRUE]
    /\ wsInbox = NoFrame

\* The state of the session in the terms of the specification.
WsState ==
    IF wsClosed THEN "Closed" ELSE IF wsConnected THEN "Open" ELSE "Connecting"

\* C28: a session only moves Connecting -> Open -> Closed or Connecting ->
\* Closed; Closed is absorbing, connected and closed are never both true, and
\* a session returned by connect() is connected and not closed.
C28_StateMachine ==
    [][/\ ~(wsConnected /\ wsClosed)'
       /\ wsClosed => wsClosed'
       /\ <<WsState, WsState'>> \in
              {<<"Connecting", "Connecting">>, <<"Connecting", "Open">>,
               <<"Connecting", "Closed">>, <<"Open", "Open">>, <<"Open", "Closed">>,
               <<"Closed", "Closed">>}
       /\ (wsLast'.op = "connect" /\ wsLast'.ret = "session") => (wsConnected' /\ ~wsClosed')
       /\ wsPhase' = "connected" => (wsConnected' \/ wsClosed')]_vars

\* A session that was open has been closed by a frame of the peer, and a
\* later call found it closed.
C28_Witness ==
    /\ wsPhase = "connected"
    /\ wsClosed /\ ~wsConnected
    /\ curlHandle[WsCurl] # NullHandle
    /\ wsLast.op = "recv"
    /\ wsLast.err.kind = "WebSocketClosed"

\* C29: when the native connect fails, connect() rejects with WebSocketError,
\* the handle is released, the session never becomes Open (connected stays
\* false, closed is true) and no session object is returned to the caller.
C29_ConnectFailure ==
    /\ (wsLast.op = "connect" /\ "curl_easy_perform" \in wsLast.calls
            /\ wsLast.ret # "session") =>
           /\ wsLast.ret = "rejected"
           /\ wsLast.err.kind = "WebSocketError"
           /\ wsPhase = "connectFailed"
    /\ wsPhase = "connectFailed" =>
           /\ easyCleanups[WsCurl] = 1
           /\ curlHandle[WsCurl] = NullHandle
           /\ ~wsConnected
           /\ wsClosed
           /\ wsLast.op = "connect"

\* The native connect has failed.
C29_Witness ==
    /\ wsPhase = "connectFailed"
    /\ wsLast.op = "connect"
    /\ "curl_easy_perform" \in wsLast.calls
    /\ wsLast.err = WebSocketError("Failed to connect", 1)

\* C30: iterating a session yields each received message in order, ends
\* without error when the session closes, and propagates any other failure
\* of a receive. The close() case: when close() completes while the iterator
\* waits for the next message, the iteration has ended or still has the poll
\* that will end it.
C30_CloseEndsIteration ==
    [][(wsLast'.op = "closeFinish" /\ wsIter.state = "waiting") =>
           (wsIter'.state = "done" \/ wsIter'.call \in wsTimers')]_vars

\* C30, the messages: an item is yielded exactly when a read returned a frame,
\* it is the message of that frame, and the frame is consumed.
C30_YieldsReceivedInOrder ==
    [][(wsLast'.op \in {"recv", "poll"} /\ wsLast'.ret = "resolved") =>
           /\ wsInbox.code = CURLE_OK /\ wsInbox.received > 0
           /\ wsIter'.state = "idle"
           /\ wsIter'.out = frameToMessage(wsInbox.data, wsInbox.flags)
           /\ wsInbox' = NoFrame]_vars

\* C30, the close frame case: a close frame read by the iterator's receive
\* ends the iteration without error.
C30_CloseFrameEndsIteration ==
    [][(wsLast'.op \in {"recv", "poll"} /\ wsLast'.err.kind = "WebSocketClosed") =>
           (wsIter'.state = "done" /\ wsIter'.err = NoError)]_vars

\* C30, the other failures: a receive rejected with anything but
\* WebSocketClosed makes the iteration throw that error.
C30_OtherFailurePropagates ==
    [][(wsLast'.op \in {"recv", "poll"} /\ wsLast'.ret = "rejected"
            /\ wsLast'.err.kind # "WebSocketClosed") =>
           (wsIter'.state = "threw" /\ wsIter'.err = wsLast'.err)]_vars

\* The iterator waits for a message that no poll will deliver: the session
\* was closed by close() meanwhile.
C30_IteratorLeftWaiting ==
    /\ wsIter.state = "waiting"
    /\ wsClosed
    /\ wsIter.call \notin wsTimers
    /\ wsLast.op = "closeFinish"

\* C37: in every reachable state of an open scheduler with a non-empty
\* pending set the polling flag is true and a poll-loop iteration is queued
\* (handlers run to completion, so between steps none is executing).
C37_NoStrandedTransfer ==
    (~closed /\ MapSize(pendingTransfers) > 0) =>
        (polling /\ immediates > 0 /\ pollTimer = "live")

\* An iteration run from the event loop has settled one transfer, left
\* another pending and queued the next iteration.
C37_Witness ==
    /\ lastOp.op = "pollLoop"
    /\ lastOp.settled # <<>>
    /\ lastOp.loop = "rescheduled"
    /\ ~closed
    /\ MapSize(pendingTransfers) > 0

\* The native calls that take the multiplexing context.
NativeMultiCalls ==
    {"curl_multi_add_handle", "curl_multi_remove_handle", "curl_multi_perform",
     "curl_multi_poll", "curl_multi_info_read", "curl_multi_cleanup"}

\* C38: the context is released exactly when the scheduler is closed, and
\* once it is released no step makes a native multiplexing call or releases
\* it again: perform() fails with the scheduler-closed error, cancel()
\* returns false, close() returns at once, and no poll iteration is left to
\* run.
C38_NoUseAfterRelease ==
    [][/\ closed' <=> handle' = "null"
       /\ handle = "null" =>
              /\ lastOp'.calls \cap NativeMultiCalls = {}
              /\ handle' = "null"
              /\ cleanupCalls' = cleanupCalls
              /\ registered' = {}
              /\ immediates' = 0
              /\ lastOp'.op = "perform" => lastOp'.ret = "AlreadyClosed"
              /\ lastOp'.op = "cancel" => lastOp'.ret = "false"
              /\ lastOp'.op \in {"close", "sessionClose"} => lastOp'.ret \in {"noop", "none"}
              /\ lastOp'.op # "pollLoop"]_vars

\* After a close() that rejected a pending transfer, a perform() of another
\* Curl object has been refused.
C38_Witness ==
    /\ handle = "null"
    /\ cleanupCalls = 1
    /\ lastOp.op = "perform" /\ lastOp.ret = "AlreadyClosed"
    /\ \E c \in Curls : futures[c].outcome = SchedulerClosed

\* Instance i was made by getSharedMulti(): it exists and is no Session's
\* dedicated scheduler.
SharedBorn(i) ==
    multis[i].created /\ \A j \in Requests : ~(sess[j].ownMulti /\ sess[j].multi = i)

\* A step in which getSharedMulti() ran (called directly or by new Session).
GotShared ==
    \/ sharedLast'.op = "getSharedMulti"
    \/ sharedLast'.op = "newSession" /\ \E j \in Requests :
           sess[j].state = "none" /\ sess'[j].state = "open" /\ ~sess'[j].ownMulti

\* C33: getSharedMulti() returns the same instance on every call while that
\* instance is open: an instance it returned before and that is still open
\* is the one it returns.
C33_SameInstanceWhileOpen ==
    [][GotShared =>
          \A i \in MultiIds : (SharedBorn(i) /\ ~multis[i].closed) => sharedLast'.id = i]_vars

\* C33, the other parts: getSharedMulti() never returns a closed instance,
\* makes a fresh instance when the variable is null or holds a closed one,
\* and a closeSharedMulti() that finds no instance or a closed one changes
\* no instance.
C33_NeverClosedAndFresh ==
    [][/\ GotShared =>
              /\ multis'[sharedLast'.id].created /\ ~multis'[sharedLast'.id].closed
              /\ sharedMulti' = sharedLast'.id
              /\ (sharedMulti = 0 \/ multis[sharedMulti].closed) =>
                     (~multis[sharedLast'.id].created /\ multis'[sharedLast'.id] = NewMulti)
       /\ (sharedLast'.op = "closeSharedMulti"
              /\ (sharedMulti = 0 \/ multis[sharedMulti].closed)) => UNCHANGED multis
       /\ (sharedLast'.op = "closeSharedMulti" /\ sharedMulti # 0) =>
              multis'[sharedMulti].closed]_vars

\* Two instances made by getSharedMulti() are open at once: the first was
\* made while a closeSharedMulti() was at its await, which then set the
\* variable to null.
C33_TwoOpenSharedInstances ==
    \E a, b \in MultiIds :
        /\ a # b
        /\ SharedBorn(a) /\ ~multis[a].closed
        /\ SharedBorn(b) /\ ~multis[b].closed
        /\ sharedMulti = b

\* C35: a step changes no instance but the one it acts on (a fault, cancel
\* or close on one CurlMulti leaves every record and future of the others);
\* closing a Session with a dedicated scheduler fails that Session's pending
\* transfer with the scheduler-closed error and nothing else, and closing a
\* Session on the shared scheduler changes no instance at all.
C35_InstancesIndependent ==
    [][/\ \A k \in MultiIds : k # sharedLast'.id => multis'[k] = multis[k]
       /\ \A j \in Requests :
              (sess[j].state = "open" /\ sess'[j].state = "closed") =>
                  IF sess[j].ownMulti
                  THEN /\ multis'[sess[j].multi].closed
                       /\ \A c \in Curls :
                              multis'[sess[j].multi].futures[c] =
                                  IF c = j /\ multis[sess[j].multi].futures[c].outcome = Pending
                                  THEN [outcome |-> SchedulerClosed, settles |-> 1]
                                  ELSE multis[sess[j].multi].futures[c]
                  ELSE UNCHANGED multis]_vars

\* A Session on the shared scheduler has just been closed while the transfer
\* of another Session is pending on that scheduler, which stays open.
C35_Witness ==
    /\ sharedLast.op = "closeSession" /\ sharedLast.ret = "closed"
    /\ \E j, k \in Requests :
           /\ j # k
           /\ sess[j].state = "closed" /\ ~sess[j].ownMulti
           /\ sess[k].state = "open" /\ sess[k].multi = sess[j].multi
           /\ ~multis[sess[k].multi].closed
           /\ multis[sess[k].multi].futures[k].outcome = Pending

\* A poll iteration of one instance has failed its transfer on a context
\* fault while a transfer is pending on another instance.
C35_FaultWitness ==
    /\ sharedLast.op = "pollLoop" /\ sharedLast.settled # <<>>
    /\ \E k \in MultiIds, c \in Requests :
           k # sharedLast.id /\ multis[k].futures[c].outcome = Pending

\* C31: the handle of the WebSocket session is never registered with, nor
\* pending on, any CurlMulti; and a step of the session (connect, recv, poll,
\* send, close) changes no existing instance: it closes none and changes no
\* pending set, and it leaves the shared instance in place while that one is
\* open.
C31_HandleNeverShared ==
    [][/\ \A i \in MultiIds :
              /\ WsCurl \notin multis'[i].registered
              /\ WsCurl \notin DOMAIN multis'[i].curlToAddr
              /\ \A a \in DOMAIN multis'[i].pendingTransfers :
                     multis'[i].pendingTransfers[a].curl # WsCurl
       /\ wsVars' # wsVars =>
              /\ \A i \in MultiIds : multis[i].created => multis'[i] = multis[i]
              /\ (sharedMulti # 0 /\ ~multis[sharedMulti].closed) =>
                     UNCHANGED <<sharedMulti, multis>>]_vars

\* The session has been closed by close() while the scheduler its
\* constructor took is open with a Session's transfer pending.
C31_Witness ==
    /\ wsLast.op = "closeFinish"
    /\ wsClosed
    /\ wsMulti # 0
    /\ ~multis[wsMulti].closed
    /\ \E c \in Requests : multis[wsMulti].futures[c].outcome = Pending

\* C34: a frame read that returns the again status leaves the receive
\* polling, with its next poll scheduled, rejects nothing and leaves the
\* session as it was; and a poll-loop iteration whose advance call returns
\* the call-again status ends exactly as one whose advance call returns
\* success, never in the fault branch that fails the pending transfers.
C34_AgainIsNotAnError ==
    [][/\ (wsLast'.op \in {"recv", "poll"} /\ wsLast'.frame.code = CURLE_AGAIN
              /\ "curl_ws_recv" \in wsLast'.calls) =>
              /\ wsLast'.ret = "polling"
              /\ wsLast'.err = NoError
              /\ wsRecv'[wsLast'.id] # "idle"
              /\ wsLast'.id \in wsTimers'
              /\ UNCHANGED <<wsPhase, wsConnected, wsClosed, wsCloseEvent, curlHandle>>
       /\ \A i \in MultiIds :
              (~multis[i].closed /\ MapSize(multis[i].pendingTransfers) > 0) =>
                  LET a == curl_multi_perform(multis[i])
                      again == pollLoopAfterAdvance(a, CURLM_CALL_MULTI_PERFORM)
                  IN  /\ again = pollLoopAfterAdvance(a, CURLM_OK)
                      /\ \A s \in again :
                             /\ s.loop # "perform_fault"
                             /\ s.fault = 0 => s.futures = multis[i].futures]_vars

\* A poll of a receive has just read the again status and is scheduled
\* again, while an instance has a transfer pending and its iteration queued.
C34_Witness ==
    /\ wsLast.op = "poll" /\ wsLast.frame.code = CURLE_AGAIN /\ wsLast.ret = "polling"
    /\ wsLast.id \in wsTimers
    /\ \E i \in MultiIds :
           /\ ~multis[i].closed
           /\ MapSize(multis[i].pendingTransfers) > 0
           /\ multis[i].immediates > 0

\* C39: while two recv() calls are polling on an open session, a poll in
\* which one of them settles (message, timeout or error) or polls on leaves
\* the other one polling with its own poll still scheduled.
C39_ConcurrentReceives ==
    [][\A r \in RecvIds :
          (wsLast'.op = "poll" /\ wsLast'.id # r /\ ~wsClosed /\ ~wsClosed'
              /\ wsRecv[r] # "idle" /\ r \in wsTimers) =>
                 (wsRecv'[r] # "idle" /\ r \in wsTimers')]_vars

\* One of two polling recv() calls has resolved with a message and the
\* other is left polling without a scheduled poll, on an open session.
C39_StrandedReceive ==
    /\ wsLast.op = "poll" /\ wsLast.ret = "resolved"
    /\ ~wsClosed
    /\ \E r \in RecvIds : r # wsLast.id /\ wsRecv[r] # "idle" /\ r \notin wsTimers

\* The step is a recv() or a poll whose read returned, with a success
\* status, a text or binary frame.
ReadDataFrame ==
    /\ wsLast'.op \in {"recv", "poll"}
    /\ "curl_ws_recv" \in wsLast'.calls
    /\ wsInbox.code = CURLE_OK
    /\ wsInbox.flags \in {CURLWS_TEXT, CURLWS_BINARY}

\* C40: every text or binary frame the native read returns with a success
\* status, one with an empty payload included, resolves the recv() call that
\* read it with the message of that frame; the frame is consumed by the
\* read, so it is delivered once and in the order the engine returned it.
C40_NoFrameLost ==
    [][ReadDataFrame =>
           /\ wsLast'.ret = "resolved"
           /\ wsLast'.msg = frameToMessage(SubSeq(wsInbox.data, 1, wsInbox.received),
                                           wsInbox.flags)
           /\ wsRecv'[wsLast'.id] = "idle"
           /\ wsInbox' = NoFrame]_vars

\* C40 for frames that carry a payload.
C40_NonEmptyFrameDelivered ==
    [][(ReadDataFrame /\ wsInbox.received > 0) =>
           /\ wsLast'.ret = "resolved"
           /\ wsLast'.msg = frameToMessage(SubSeq(wsInbox.data, 1, wsInbox.received),
                                           wsInbox.flags)
           /\ wsRecv'[wsLast'.id] = "idle"
           /\ wsInbox' = NoFrame]_vars

\* An empty text or binary frame has been read and dropped: the frame is
\* gone from the engine and the recv() call that read it is still polling.
C40_EmptyFrameDropped ==
    /\ wsLast.op \in {"recv", "poll"}
    /\ wsLast.frame.code = CURLE_OK /\ wsLast.frame.received = 0
    /\ wsLast.frame.flags \in {CURLWS_TEXT, CURLWS_BINARY}
    /\ wsLast.ret = "polling"
    /\ wsInbox = NoFrame

CaseVariants(name) == {n \in HeaderNames : toLowerCase(n) = toLowerCase(name)}

\* C36: after set(name, v), get and getAll with any case variant of name
\* return v and [v], whatever was set or appended before under any case
\* variant; append adds its value after the existing ones; get returns the
\* first value and getAll all values in append order.
C36_CaseInsensitiveReplaceOnSet ==
    [][/\ hdrLast'.op = "set" =>
            \A n \in CaseVariants(hdrLast'.name) :
                /\ get(hdrData', n) = Str(hdrLast'.value)
                /\ getAll(hdrData', n) = <<hdrLast'.value>>
       /\ hdrLast'.op = "append" =>
            \A n \in CaseVariants(hdrLast'.name) :
                /\ getAll(hdrData', n) = Append(getAll(hdrData, n), hdrLast'.value)
                /\ get(hdrData', n) = Str(getAll(hdrData', n)[1])
       /\ hdrLast'.op = "get" =>
            hdrLast'.ret = IF getAll(hdrData, hdrLast'.name) = <<>> THEN Null
                           ELSE Str(getAll(hdrData, hdrLast'.name)[1])
       /\ hdrLast'.op \in {"set", "append"} =>
            \A n \in HeaderNames \ CaseVariants(hdrLast'.name) :
                getAll(hdrData', n) = getAll(hdrData, n)]_vars

\* set("a-", v) replaced two values kept under the key, one of them stored as
\* "A-", and both spellings now read [v].
C36_Witness ==
    /\ hdrLast.op = "set"
    /\ hdrLast.name = <<97, 45>>
    /\ hdrLast.had = 2
    /\ getAll(hdrData, <<65, 45>>) = <<hdrLast.value>>
    /\ getAll(hdrData, <<97, 45>>) = <<hdrLast.value>>

====
